---- MODULE Spec2Model ----
(***************************************************************************)
(* Model of the cw-it multi-test modules: the Token Factory module in its  *)
(* Coreum variant (token_factory_coreum.rs) and its generic variant        *)
(* (token_factory.rs), together with the part of the Bank Subsystem they   *)
(* call through the router.                                                *)
(*                                                                         *)
(* Strings are sequences of one-character strings, so that split, regex    *)
(* matching, formatting and parsing are computed as the code computes      *)
(* them.  Fixed error messages are plain TLA+ strings.                     *)
(***************************************************************************)
EXTENDS Integers, Sequences, FiniteSets, TLC

VARIABLES
    variant,    \* "coreum" | "generic": the build feature selecting the TokenFactory
    bank,       \* Bank Subsystem balances: <<address, denom>> -> positive amount
    issued,     \* ISSUED_TOKENS: denom -> MsgIssue
    last,       \* the last execute call: its request and what it returned
    prev,       \* the call before the last one, when it was a successful issue or NFT burn
    classes,    \* ISSUED_NFT_CLASSES: class id -> MsgIssueClass
    nfts        \* MINTED_NFTS: <<class id, token id>> -> StoredNft

vars == <<variant, bank, issued, last, prev, classes, nfts>>

(***************************************************************************)
(* Bounds of the model.                                                    *)
(***************************************************************************)
\* creation fee amount written in the configured fee string
FeeAmount == 2
\* number of creation fees the first account is funded with
FeeUnits == 2
\* a mint is explored only while the denom's supply stays within this bound
MaxSupply == 2

(***************************************************************************)
(* Characters and strings.                                                 *)
(***************************************************************************)
Lower == {"a","b","c","d","e","f","g","h","i","j","k","l","m",
          "n","o","p","q","r","s","t","u","v","w","x","y","z"}
Upper == {"A","B","C","D","E","F","G","H","I","J","K","L","M",
          "N","O","P","Q","R","S","T","U","V","W","X","Y","Z"}
Digit == {"0","1","2","3","4","5","6","7","8","9"}

DigitVal(c) ==
    CASE c = "0" -> 0 [] c = "1" -> 1 [] c = "2" -> 2 [] c = "3" -> 3
      [] c = "4" -> 4 [] c = "5" -> 5 [] c = "6" -> 6 [] c = "7" -> 7
      [] c = "8" -> 8 [] c = "9" -> 9

DigitChar(d) == <<"0","1","2","3","4","5","6","7","8","9">>[d + 1]

AllIn(s, cs) == \A i \in 1..Len(s) : s[i] \in cs

Contains(s, c) == \E i \in 1..Len(s) : s[i] = c

\* str::split(c): the pieces between the occurrences of c (always at least one piece)
RECURSIVE Split(_, _)
Split(s, c) ==
    IF ~Contains(s, c) THEN <<s>>
    ELSE LET i == CHOOSE k \in 1..Len(s) : s[k] = c /\ \A j \in 1..(k - 1) : s[j] # c
         IN <<SubSeq(s, 1, i - 1)>> \o Split(SubSeq(s, i + 1, Len(s)), c)

\* numeric value of a non-empty run of decimal digits
RECURSIVE DecValue(_)
DecValue(s) ==
    IF Len(s) = 0 THEN 0
    ELSE 10 * DecValue(SubSeq(s, 1, Len(s) - 1)) + DigitVal(s[Len(s)])

\* u128 / Uint128 to_string(): decimal, no leading zeros
RECURSIVE ToDec(_)
ToDec(n) == IF n < 10 THEN <<DigitChar(n)>> ELSE ToDec(n \div 10) \o <<DigitChar(n % 10)>>

\* str::parse::<u128>() and Uint128::from_str: an optional '+', then one or more digits
\* (values beyond u128 are outside the strings explored)
ParseU128(s) ==
    LET body == IF Len(s) > 0 /\ s[1] = "+" THEN Tail(s) ELSE s
    IN IF Len(body) = 0 \/ ~AllIn(body, Digit) THEN [ok |-> FALSE, val |-> 0]
       ELSE [ok |-> TRUE, val |-> DecValue(body)]

(***************************************************************************)
(* String literals used as inputs and configuration.                       *)
(***************************************************************************)
EMPTY == <<>>
ALI == <<"a","l","i">>
BOB == <<"b","o","b">>
SUB == <<"s","u","b">>
S_B == <<"s","-","b">>
AB == <<"a","b">>
ALI_UPPER == <<"A", "l", "i">>
BOB_UPPER == <<"B", "O", "B">>
SYM == <<"S","U","B">>
SYM2 == <<"T","O","K">>
BADSYM == <<"S">>
NOTNUM == <<"x">>

\* crate::traits::DEFAULT_COIN_DENOM, the chain's native fee denom
DEFAULT_COIN_DENOM == <<"u","c","o","r","e">>

\* TokenFactory::default() / tests::TOKEN_FACTORY
module_denom_prefix == <<"f","a","c","t","o","r","y">>
max_subdenom_len == 32
max_creator_len == 75
\* DEFAULT_INIT: the fee amount immediately followed by the fee denom
denom_creation_fee == ToDec(FeeAmount) \o DEFAULT_COIN_DENOM

(***************************************************************************)
(* Results.                                                                *)
(***************************************************************************)
Ok(evs) == [ok |-> TRUE, err |-> "", arg |-> EMPTY, events |-> evs]
Err(m) == [ok |-> FALSE, err |-> m, arg |-> EMPTY, events |-> <<>>]
ErrArg(m, a) == [ok |-> FALSE, err |-> m, arg |-> a, events |-> <<>>]
\* a Rust panic (index out of bounds): the call returns neither a response nor an error
Panic(m) == [ok |-> FALSE, err |-> "panic", arg |-> EMPTY, events |-> <<>>]

Event(ty, attrs) == [ty |-> ty, attrs |-> attrs]

(***************************************************************************)
(* Bank Subsystem (cw-multi-test BankKeeper, reached through the router).  *)
(* Balances are kept normalised: a zero balance has no entry.              *)
(***************************************************************************)
Balance(b, a, d) == IF <<a, d>> \in DOMAIN b THEN b[<<a, d>>] ELSE 0

SetBalance(b, a, d, v) ==
    IF v = 0 THEN [k \in (DOMAIN b) \ {<<a, d>>} |-> b[k]]
    ELSE [k \in (DOMAIN b) \cup {<<a, d>>} |-> IF k = <<a, d>> THEN v ELSE b[k]]

RECURSIVE SumOver(_, _)
SumOver(b, ks) ==
    IF ks = {} THEN 0
    ELSE LET k == CHOOSE x \in ks : TRUE IN b[k] + SumOver(b, ks \ {k})

\* BankQuery::Supply: the sum of every account's balance of the denom
Supply(b, d) == SumOver(b, {k \in DOMAIN b : k[2] = d})

\* longest address the mock Api canonicalizes
max_address_len == 90

\* Api::addr_validate of the mock Api the app is built with, as the bank calls
\* it on to_address: the address is canonicalized (3 to 90 bytes) and must come
\* back unchanged, which an upper-case letter prevents; "" when accepted
addr_validate(a) ==
    IF Len(a) < 3
    THEN "Invalid input: human address too short for this mock implementation (must be >= 3)."
    ELSE IF Len(a) > max_address_len
    THEN "Invalid input: human address too long for this mock implementation (must be <= 90)."
    ELSE IF \E i \in 1..Len(a) : a[i] \in Upper THEN "Invalid input: address not normalized"
    ELSE ""

AddrValidate(a) == addr_validate(a) = ""

\* BankMsg::Burn { amount: [coin] } executed for `from`
BankBurn(b, from, d, amt) ==
    IF amt = 0 THEN [ok |-> FALSE, err |-> "Cannot transfer empty coins amount", bank |-> b]
    ELSE IF Balance(b, from, d) < amt THEN [ok |-> FALSE, err |-> "Cannot Sub", bank |-> b]
    ELSE [ok |-> TRUE, err |-> "", bank |-> SetBalance(b, from, d, Balance(b, from, d) - amt)]

\* BankSudo::Mint { to_address, amount: [coin] }
BankMint(b, to, d, amt) ==
    IF ~AddrValidate(to) THEN [ok |-> FALSE, err |-> addr_validate(to), bank |-> b]
    ELSE IF amt = 0 THEN [ok |-> FALSE, err |-> "Cannot transfer empty coins amount", bank |-> b]
    ELSE [ok |-> TRUE, err |-> "", bank |-> SetBalance(b, to, d, Balance(b, to, d) + amt)]

(***************************************************************************)
(* coin_from_sdk_string: the denom-string parser of both variants.         *)
(***************************************************************************)
HexUpper == Digit \cup {"A","B","C","D","E","F"}

\* length of the leading run of decimal digits
LeadingDigits(s) ==
    IF \E i \in 1..Len(s) : s[i] \notin Digit
    THEN (CHOOSE i \in 1..Len(s) : s[i] \notin Digit /\ \A j \in 1..(i - 1) : s[j] \in Digit) - 1
    ELSE Len(s)

Rest(s, n) == SubSeq(s, n + 1, Len(s))

\* ^[0-9]+[a-z]+$
denom_re(s) ==
    LET n == LeadingDigits(s)
    IN n >= 1 /\ Len(s) > n /\ AllIn(Rest(s, n), Lower)

\* ^([0-9]+)([a-z0-9]+)-([A-Za-z0-9]+)$
denom_re2(s) ==
    \E i \in 1..Len(s) : \E j \in (i + 2)..Len(s) :
        /\ AllIn(SubSeq(s, 1, i), Digit)
        /\ AllIn(SubSeq(s, i + 1, j - 1), Lower \cup Digit)
        /\ s[j] = "-"
        /\ j < Len(s)
        /\ AllIn(Rest(s, j), Lower \cup Upper \cup Digit)

\* mutant: only the lower-case prefix is an IBC denom
ibc_re_mut(s) ==
    LET n == LeadingDigits(s)
    IN /\ n >= 1
       /\ Len(s) = n + 4 + 64
       /\ SubSeq(s, n + 1, n + 3) = <<"i","b","c">>
       /\ s[n + 4] = "/"
       /\ AllIn(Rest(s, n + 4), HexUpper)

\* ^[0-9]+(ibc|IBC)/[0-9A-F]{64}$
ibc_re(s) ==
    LET n == LeadingDigits(s)
    IN /\ n >= 1
       /\ Len(s) = n + 4 + 64
       /\ SubSeq(s, n + 1, n + 3) \in {<<"i","b","c">>, <<"I","B","C">>}
       /\ s[n + 4] = "/"
       /\ AllIn(Rest(s, n + 4), HexUpper)

\* mutant: path segments behind the subdenom are let through
factory_re_mut(s) ==
    \E i \in 1..Len(s) :
        LET r == Rest(s, i)
            parts == Split(r, "/")
        IN /\ AllIn(SubSeq(s, 1, i), Digit)
           /\ Len(parts) >= 3
           /\ parts[1] = <<"f","a","c","t","o","r","y">>
           /\ Len(parts[2]) >= 1 /\ AllIn(parts[2], Lower \cup Digit)
           /\ Len(parts[3]) >= 1 /\ AllIn(parts[3], Lower \cup Upper \cup Digit)

\* ^[0-9]+factory/[0-9a-z]+/[0-9a-zA-Z]+$
factory_re(s) ==
    \E i \in 1..Len(s) :
        LET r == Rest(s, i)
            parts == Split(r, "/")
        IN /\ AllIn(SubSeq(s, 1, i), Digit)
           /\ Len(parts) = 3
           /\ parts[1] = <<"f","a","c","t","o","r","y">>
           /\ Len(parts[2]) >= 1 /\ AllIn(parts[2], Lower \cup Digit)
           /\ Len(parts[3]) >= 1 /\ AllIn(parts[3], Lower \cup Upper \cup Digit)

\* which shapes the variant of the module accepts
SdkStringAccepted(v, s) ==
    \/ denom_re(s)
    \/ (v = "coreum" /\ denom_re2(s))
    \/ ibc_re(s)
    \/ factory_re(s)

coin_from_sdk_string(v, s) ==
    IF ~SdkStringAccepted(v, s) THEN [ok |-> FALSE, err |-> "Invalid sdk string", denom |-> EMPTY, amount |-> 0]
    ELSE LET amount == DecValue(SubSeq(s, 1, LeadingDigits(s)))
         IN [ok |-> TRUE, err |-> "", denom |-> Rest(s, Len(ToDec(amount))), amount |-> amount]

(***************************************************************************)
(* Token Factory, Coreum variant: fungible-token path.                     *)
(***************************************************************************)
Out(res, b, iss) == [res |-> res, bank |-> b, issued |-> iss]

NoCoin == [some |-> FALSE, denom |-> EMPTY, amount |-> EMPTY]
SomeCoin(d, a) == [some |-> TRUE, denom |-> d, amount |-> a]

\* format!("{}-{}", msg.subunit, msg.issuer)
issue_to_denom(msg) == msg.subunit \o <<"-">> \o msg.issuer

\* Regex ^[a-zA-Z][a-zA-Z0-9/:._-]{2,127}$
issue_denom_re(s) ==
    /\ Len(s) >= 3 /\ Len(s) <= 128
    /\ s[1] \in Lower \cup Upper
    /\ AllIn(Tail(s), Lower \cup Upper \cup Digit \cup {"/", ":", ".", "_", "-"})

\* mutant: a creator address containing '/' is let through
issue_validate_mut(sender, msg) ==
    IF Len(msg.subunit) > max_subdenom_len THEN "Subdenom length is too long, max length is"
    ELSE IF Len(msg.issuer) > max_creator_len THEN "Creator length is too long, max length is"
    ELSE IF msg.issuer # sender THEN "Invalid creator address, creator address must be the same as the sender"
    ELSE IF ~issue_denom_re(msg.subunit) THEN "subunit must match regex format"
    ELSE IF ~issue_denom_re(msg.symbol) THEN "symbol must match regex format"
    ELSE ""

\* the field checks of issue, in the order of the code; "" when all pass
issue_validate(sender, msg) ==
    IF Len(msg.subunit) > max_subdenom_len THEN "Subdenom length is too long, max length is"
    ELSE IF Len(msg.issuer) > max_creator_len THEN "Creator length is too long, max length is"
    ELSE IF Contains(msg.issuer, "/") THEN "Invalid creator address, creator address cannot contains '/'"
    ELSE IF msg.issuer # sender THEN "Invalid creator address, creator address must be the same as the sender"
    ELSE IF ~issue_denom_re(msg.subunit) THEN "subunit must match regex format"
    ELSE IF ~issue_denom_re(msg.symbol) THEN "symbol must match regex format"
    ELSE ""

\* ISSUED_TOKENS.save(storage, denom, &msg)
issued_save(iss, denom, msg) ==
    [d \in (DOMAIN iss) \cup {denom} |-> IF d = denom THEN msg ELSE iss[d]]

\* mutant: the supply check is dropped
issue_exists_mut(b, denom) == FALSE

\* the supply check: a denom with circulating supply cannot be issued
issue_exists(b, denom) == Supply(b, denom) # 0

\* mutant: the initial amount is parsed but never minted
issue_initial_mut(b, iss, msg, denom) ==
    LET ev == <<Event("/coreum.asset.ft.v1.EventIssued", <<<<"denom", denom>>, <<"issuer", msg.issuer>>>>)>>
        p == ParseU128(msg.initial_amount)
    IN IF msg.initial_amount = EMPTY THEN Out(Ok(ev), b, iss)
       ELSE IF ~p.ok THEN Out(ErrArg("invalid initial_amount", msg.initial_amount), b, iss)
       ELSE Out(Ok(ev), b, iss)

\* the initial-amount mint after the fee burn, and the issuance event
issue_initial(b, iss, msg, denom) ==
    LET ev == <<Event("/coreum.asset.ft.v1.EventIssued", <<<<"denom", denom>>, <<"issuer", msg.issuer>>>>)>>
        p == ParseU128(msg.initial_amount)
    IN IF msg.initial_amount = EMPTY THEN Out(Ok(ev), b, iss)
       ELSE IF ~p.ok THEN Out(ErrArg("invalid initial_amount", msg.initial_amount), b, iss)
       ELSE IF p.val > 0
            THEN LET m == BankMint(b, msg.issuer, denom, p.val)
                 IN IF m.ok THEN Out(Ok(ev), m.bank, iss) ELSE Out(Err(m.err), b, iss)
            ELSE Out(Ok(ev), b, iss)

\* mutant: the fee is checked against the balance but not taken from it
issue_mut(b, iss, sender, msg) ==
    LET v == issue_validate(sender, msg)
        denom == issue_to_denom(msg)
        iss1 == issued_save(iss, denom, msg)
        fee == coin_from_sdk_string("coreum", denom_creation_fee)
        burnt == BankBurn(b, sender, fee.denom, fee.amount)
    IN IF v # "" THEN Out(Err(v), b, iss)
       ELSE IF issue_exists(b, denom) THEN Out(Err("Subdenom already exists"), b, iss1)
       ELSE IF ~fee.ok THEN Out(Err(fee.err), b, iss1)
       ELSE IF ~burnt.ok THEN Out(Err(burnt.err), b, iss1)
       ELSE issue_initial(b, iss1, msg, denom)

issue(b, iss, sender, msg) ==
    LET v == issue_validate(sender, msg)
        denom == issue_to_denom(msg)
        iss1 == issued_save(iss, denom, msg)
        fee == coin_from_sdk_string("coreum", denom_creation_fee)
        burnt == BankBurn(b, sender, fee.denom, fee.amount)
    IN IF v # "" THEN Out(Err(v), b, iss)
       ELSE IF issue_exists(b, denom) THEN Out(Err("Subdenom already exists"), b, iss1)
       ELSE IF ~fee.ok THEN Out(Err(fee.err), b, iss1)
       ELSE IF ~burnt.ok THEN Out(Err(burnt.err), b, iss1)
       ELSE issue_initial(burnt.bank, iss1, msg, denom)

\* mutant: the issuer part of the denom is not compared with the sender
ft_authorize_mut(what, parts, sender, msg) ==
    IF Len(parts) # 2 THEN "Invalid denom"
    ELSE IF sender # msg.sender THEN "Invalid sender. Sender in msg must be same as sender of transaction."
    ELSE ""

\* the sender checks shared by mint and burn; "" when all pass
ft_authorize(what, parts, sender, msg) ==
    IF Len(parts) # 2 THEN "Invalid denom"
    ELSE IF parts[2] # sender
         THEN (IF what = "mint" THEN "Unauthorized mint. Not the issuer of the denom."
                                ELSE "Unauthorized burn. Not the issuer of the denom.")
    ELSE IF sender # msg.sender THEN "Invalid sender. Sender in msg must be same as sender of transaction."
    ELSE ""

\* mutant: the issuance record is not looked up
ft_unknown_mut(iss, denom) == FALSE

\* ISSUED_TOKENS.may_load(storage, denom)?.is_none()
ft_unknown(iss, denom) == denom \notin DOMAIN iss

\* mutant: the zero check is dropped
is_zero_mut(amount) == FALSE

\* amount.is_zero()
is_zero(amount) == amount = 0

\* the recipient named in the tf_mint event
mint_recipient(msg) == IF msg.recipient = EMPTY THEN msg.sender ELSE msg.recipient

\* mutant: the mint always goes to the declared sender
mint_to_mut(msg) == msg.sender

\* the address handed to bank_mint
mint_to(msg) == msg.recipient

mint(b, iss, sender, msg) ==
    IF ~msg.coin.some THEN Out(Err("MsgMint.coin is None"), b, iss)
    ELSE
    LET denom == msg.coin.denom
        a == ft_authorize("mint", Split(denom, "-"), sender, msg)
        amount == ParseU128(msg.coin.amount)
        m == BankMint(b, mint_to(msg), denom, amount.val)
    IN IF a # "" THEN Out(Err(a), b, iss)
       ELSE IF ft_unknown(iss, denom) THEN Out(ErrArg("MsgMint for unknown Coreum FT denom", denom), b, iss)
       ELSE IF ~amount.ok THEN Out(Err("Parsing u128"), b, iss)
       ELSE IF is_zero(amount.val) THEN Out(Err("Invalid zero amount"), b, iss)
       ELSE IF ~m.ok THEN Out(Err(m.err), b, iss)
       ELSE Out(Ok(<<Event("tf_mint", << <<"sender", msg.sender>>,
                                          <<"recipient", mint_recipient(msg)>>,
                                          <<"denom", denom>>,
                                          <<"amount", ToDec(amount.val)>> >>)>>), m.bank, iss)

\* mutant: the error of the bank's burn is dropped instead of propagated
burn_mut(b, iss, sender, msg) ==
    IF ~msg.coin.some THEN Out(Err("MsgBurn.coin is None"), b, iss)
    ELSE
    LET denom == msg.coin.denom
        a == ft_authorize("burn", Split(denom, "-"), sender, msg)
        amount == ParseU128(msg.coin.amount)
        m == BankBurn(b, sender, denom, amount.val)
    IN IF a # "" THEN Out(Err(a), b, iss)
       ELSE IF ft_unknown(iss, denom) THEN Out(ErrArg("MsgBurn for unknown Coreum FT denom", denom), b, iss)
       ELSE IF ~amount.ok THEN Out(Err("Parsing u128"), b, iss)
       ELSE IF is_zero(amount.val) THEN Out(Err("Invalid zero amount"), b, iss)
       ELSE Out(Ok(<<Event("tf_burn", << <<"burn_from_address", sender>>,
                                          <<"amount", ToDec(amount.val)>> >>)>>), m.bank, iss)

burn(b, iss, sender, msg) ==
    IF ~msg.coin.some THEN Out(Err("MsgBurn.coin is None"), b, iss)
    ELSE
    LET denom == msg.coin.denom
        a == ft_authorize("burn", Split(denom, "-"), sender, msg)
        amount == ParseU128(msg.coin.amount)
        m == BankBurn(b, sender, denom, amount.val)
    IN IF a # "" THEN Out(Err(a), b, iss)
       ELSE IF ft_unknown(iss, denom) THEN Out(ErrArg("MsgBurn for unknown Coreum FT denom", denom), b, iss)
       ELSE IF ~amount.ok THEN Out(Err("Parsing u128"), b, iss)
       ELSE IF is_zero(amount.val) THEN Out(Err("Invalid zero amount"), b, iss)
       ELSE IF ~m.ok THEN Out(Err(m.err), b, iss)
       ELSE Out(Ok(<<Event("tf_burn", << <<"burn_from_address", sender>>,
                                          <<"amount", ToDec(amount.val)>> >>)>>), m.bank, iss)

(***************************************************************************)
(* Token Factory, generic variant.                                         *)
(***************************************************************************)
\* format!("{}/{}/{}", self.module_denom_prefix, msg.sender, msg.subdenom)
create_denom_name(msg) == module_denom_prefix \o <<"/">> \o msg.sender \o <<"/">> \o msg.subdenom

create_denom_validate(sender, msg) ==
    IF Len(msg.subdenom) > max_subdenom_len THEN "Subdenom length is too long, max length is"
    ELSE IF Len(msg.sender) > max_creator_len THEN "Creator length is too long, max length is"
    ELSE IF Contains(msg.sender, "/") THEN "Invalid creator address, creator address cannot contains '/'"
    ELSE IF msg.sender # sender THEN "Invalid creator address, creator address must be the same as the sender"
    ELSE ""

create_denom(b, iss, sender, msg) ==
    LET v == create_denom_validate(sender, msg)
        denom == create_denom_name(msg)
        fee == coin_from_sdk_string("generic", denom_creation_fee)
        burnt == BankBurn(b, sender, fee.denom, fee.amount)
    IN IF v # "" THEN Out(Err(v), b, iss)
       ELSE IF issue_exists(b, denom) THEN Out(Err("Subdenom already exists"), b, iss)
       ELSE IF ~fee.ok THEN Out(Err(fee.err), b, iss)
       ELSE IF ~burnt.ok THEN Out(Err(burnt.err), b, iss)
       ELSE Out(Ok(<<Event("create_denom", << <<"creator", msg.sender>>,
                                               <<"new_token_denom", denom>> >>)>>), burnt.bank, iss)

\* parts.len() != 3 && parts[0] != self.module_denom_prefix
tf_invalid_denom(parts) == Len(parts) # 3 /\ parts[1] # module_denom_prefix

\* the sender checks shared by the generic mint and burn; "" when all pass,
\* "panic" when parts[1] is indexed out of bounds
tf_authorize(what, parts, sender, msg) ==
    IF tf_invalid_denom(parts) THEN "Invalid denom"
    ELSE IF Len(parts) < 2 THEN "panic"
    ELSE IF parts[2] # sender
         THEN (IF what = "mint" THEN "Unauthorized mint. Not the creator of the denom."
                                ELSE "Unauthorized burn. Not the creator of the denom.")
    ELSE IF sender # msg.sender THEN "Invalid sender. Sender in msg must be same as sender of transaction."
    ELSE ""

\* the recipient of the generic mint: mint_to_address, or the sender when it is empty
tf_recipient(msg) == IF msg.mint_to_address = EMPTY THEN msg.sender ELSE msg.mint_to_address

tf_mint(b, iss, sender, msg) ==
    IF ~msg.amount.some THEN Out(Err("missing amount"), b, iss)
    ELSE
    LET denom == msg.amount.denom
        a == tf_authorize("mint", Split(denom, "/"), sender, msg)
        amount == ParseU128(msg.amount.amount)
        m == BankMint(b, tf_recipient(msg), denom, amount.val)
    IN IF a = "panic" THEN Out(Panic(a), b, iss)
       ELSE IF a # "" THEN Out(Err(a), b, iss)
       ELSE IF ~amount.ok THEN Out(Err("Parsing u128"), b, iss)
       ELSE IF is_zero(amount.val) THEN Out(Err("Invalid zero amount"), b, iss)
       ELSE IF ~m.ok THEN Out(Err(m.err), b, iss)
       ELSE Out(Ok(<<Event("tf_mint", << <<"sender", msg.sender>>,
                                          <<"mint_to_address", msg.mint_to_address>>,
                                          <<"recipient", tf_recipient(msg)>>,
                                          <<"denom", denom>>,
                                          <<"amount", ToDec(amount.val)>> >>)>>), m.bank, iss)

tf_burn(b, iss, sender, msg) ==
    IF ~msg.amount.some THEN Out(Err("missing amount"), b, iss)
    ELSE
    LET denom == msg.amount.denom
        a == tf_authorize("burn", Split(denom, "/"), sender, msg)
        amount == ParseU128(msg.amount.amount)
        m == BankBurn(b, sender, denom, amount.val)
    IN IF a = "panic" THEN Out(Panic(a), b, iss)
       ELSE IF a # "" THEN Out(Err(a), b, iss)
       ELSE IF ~amount.ok THEN Out(Err("Parsing u128"), b, iss)
       ELSE IF is_zero(amount.val) THEN Out(Err("Invalid zero amount"), b, iss)
       ELSE IF ~m.ok THEN Out(Err(m.err), b, iss)
       ELSE Out(Ok(<<Event("tf_burn", << <<"burn_from_address", sender>>,
                                          <<"amount", ToDec(amount.val)>> >>)>>), m.bank, iss)

(***************************************************************************)
(* Requests explored.                                                      *)
(***************************************************************************)
TxSenders == {ALI, BOB}
AmountStrings == {<<"0">>, <<"1">>, <<"2">>}

SUB_ALI == SUB \o <<"-">> \o ALI
SUB_BOB == SUB \o <<"-">> \o BOB
F_ALI_SUB == module_denom_prefix \o <<"/">> \o ALI \o <<"/">> \o SUB

IssueMsgs ==
    [issuer : {ALI}, subunit : {SUB, AB}, symbol : {SYM, BADSYM}, precision : {6},
     initial_amount : {EMPTY, <<"0">>, <<"2">>, NOTNUM}]

FtCoins == {NoCoin} \cup {SomeCoin(d, a) : d \in {SUB_ALI, SUB_BOB, DEFAULT_COIN_DENOM}, a \in AmountStrings}

MintMsgs == [sender : TxSenders, coin : FtCoins, recipient : {EMPTY, ALI, BOB}]
BurnMsgs == [sender : TxSenders, coin : FtCoins]

CreateDenomMsgs == [sender : TxSenders, subdenom : {SUB}]

TfCoins == {NoCoin} \cup {SomeCoin(d, a) : d \in {F_ALI_SUB, DEFAULT_COIN_DENOM}, a \in AmountStrings}

TfMintMsgs == [sender : TxSenders, amount : TfCoins, mint_to_address : {EMPTY, ALI, BOB}]
TfBurnMsgs == [sender : TxSenders, amount : TfCoins, burn_from_address : {ALI}]

(***************************************************************************)
(* The state machine: one action per execute call.                         *)
(***************************************************************************)
NoPrev == [ok |-> FALSE, sender |-> EMPTY, denom |-> EMPTY, initial |-> EMPTY]

\* what is remembered of a call once the next one has been made
PrevOf(l) ==
    IF l.op = "issue" /\ l.res.ok
    THEN [ok |-> TRUE, sender |-> l.sender, denom |-> issue_to_denom(l.msg), initial |-> l.msg.initial_amount]
    ELSE IF l.op = "create_denom" /\ l.res.ok
    THEN [ok |-> TRUE, sender |-> l.sender, denom |-> create_denom_name(l.msg), initial |-> EMPTY]
    ELSE IF l.op = "nft_burn" /\ l.res.ok
    THEN [ok |-> TRUE, sender |-> l.sender, denom |-> l.msg.class_id, initial |-> l.msg.id]
    ELSE NoPrev

Call(op, sender, msg, o) ==
    /\ bank' = o.bank
    /\ issued' = o.issued
    /\ last' = [op |-> op, sender |-> sender, msg |-> msg, res |-> o.res]
    /\ prev' = PrevOf(last)
    /\ UNCHANGED <<variant, classes, nfts>>

\* the denom a mint request would add supply to
WithinSupply(o, coin) == o.res.ok => Supply(o.bank, coin.denom) <= MaxSupply

CoreumIssue ==
    /\ variant = "coreum"
    /\ \E sender \in TxSenders, msg \in IssueMsgs :
          Call("issue", sender, msg, issue(bank, issued, sender, msg))

CoreumMint ==
    /\ variant = "coreum"
    /\ \E sender \in TxSenders, msg \in MintMsgs :
          LET o == mint(bank, issued, sender, msg)
          IN WithinSupply(o, msg.coin) /\ Call("mint", sender, msg, o)

CoreumBurn ==
    /\ variant = "coreum"
    /\ \E sender \in TxSenders, msg \in BurnMsgs :
          Call("burn", sender, msg, burn(bank, issued, sender, msg))

GenericCreateDenom ==
    /\ variant = "generic"
    /\ \E sender \in TxSenders, msg \in CreateDenomMsgs :
          Call("create_denom", sender, msg, create_denom(bank, issued, sender, msg))

GenericMint ==
    /\ variant = "generic"
    /\ \E sender \in TxSenders, msg \in TfMintMsgs :
          LET o == tf_mint(bank, issued, sender, msg)
          IN WithinSupply(o, msg.amount) /\ Call("mint", sender, msg, o)

GenericBurn ==
    /\ variant = "generic"
    /\ \E sender \in TxSenders, msg \in TfBurnMsgs :
          Call("burn", sender, msg, tf_burn(bank, issued, sender, msg))

\* router.bank.init_balance in the app builder: the first account holds the fee denom
InitBank == [k \in {<<ALI, DEFAULT_COIN_DENOM>>} |-> FeeUnits * FeeAmount]

Init ==
    /\ variant \in {"coreum", "generic"}
    /\ bank = InitBank
    /\ issued = <<>>
    /\ last = [op |-> "none", sender |-> EMPTY, msg |-> NoCoin, res |-> Ok(<<>>)]
    /\ prev = NoPrev
    /\ classes = <<>>
    /\ nfts = <<>>

Next ==
    \/ CoreumIssue
    \/ CoreumMint
    \/ CoreumBurn
    \/ GenericCreateDenom
    \/ GenericMint
    \/ GenericBurn

Spec == Init /\ [][Next]_vars

(***************************************************************************)
(* Issue and create-denom with over-long and malformed creator addresses:  *)
(* every account is funded, so that only the field checks stand between a  *)
(* request and its effects.                                                *)
(***************************************************************************)
\* a subunit of exactly max_subdenom_len characters, and one character more
FullSub == [i \in 1..max_subdenom_len |-> "a"]
LongSub == [i \in 1..(max_subdenom_len + 1) |-> "a"]
\* an address one character longer than max_creator_len
LongAddr == [i \in 1..(max_creator_len + 1) |-> "a"]
\* an address containing '/'
SlashAddr == <<"a", "/", "b">>

ValSenders == {ALI, BOB, LongAddr, SlashAddr}

ValIssueMsgs ==
    [issuer : ValSenders, subunit : {SUB, FullSub, LongSub}, symbol : {SYM}, precision : {6},
     initial_amount : {<<"1">>}]

ValCreateDenomMsgs == [sender : ValSenders, subdenom : {SUB, FullSub, LongSub}]

ValInitBank == [k \in {<<a, DEFAULT_COIN_DENOM>> : a \in ValSenders} |-> FeeUnits * FeeAmount]

ValIssue ==
    /\ variant = "coreum"
    /\ \E sender \in ValSenders, msg \in ValIssueMsgs :
          Call("issue", sender, msg, issue(bank, issued, sender, msg))

ValCreateDenom ==
    /\ variant = "generic"
    /\ \E sender \in ValSenders, msg \in ValCreateDenomMsgs :
          Call("create_denom", sender, msg, create_denom(bank, issued, sender, msg))

ValInit ==
    /\ variant \in {"coreum", "generic"}
    /\ bank = ValInitBank
    /\ issued = <<>>
    /\ last = [op |-> "none", sender |-> EMPTY, msg |-> NoCoin, res |-> Ok(<<>>)]
    /\ prev = NoPrev
    /\ classes = <<>>
    /\ nfts = <<>>

ValNext ==
    \/ ValIssue
    \/ ValCreateDenom

ValSpec == ValInit /\ [][ValNext]_vars

(***************************************************************************)
(* Token Factory, Coreum variant: non-fungible-token path.                 *)
(***************************************************************************)
CAR == <<"c","a","r">>
CLS_SYM == <<"N","F","T">>
cls_sym == <<"n","f","t">>
ID1 == <<"1">>
ID2 == <<"2">>
URI == <<"u">>
\* StoredNft.data / MsgMint.data = None
NoData == [some |-> FALSE, val |-> EMPTY]

\* ClassFeature::Burning, ClassFeature::Soulbound
Burning == "burning"
Soulbound == "soulbound"

UpperSeq == <<"A","B","C","D","E","F","G","H","I","J","K","L","M",
              "N","O","P","Q","R","S","T","U","V","W","X","Y","Z">>
LowerSeq == <<"a","b","c","d","e","f","g","h","i","j","k","l","m",
              "n","o","p","q","r","s","t","u","v","w","x","y","z">>

\* str::to_lowercase on the characters explored: letters are folded, the rest kept
LowerOf(c) == IF c \in Upper THEN LowerSeq[CHOOSE i \in 1..26 : UpperSeq[i] = c] ELSE c
to_lowercase(s) == [i \in 1..Len(s) |-> LowerOf(s[i])]

\* what an NFT handler returns and the two maps as it leaves them
NOut(res, cl, n) == [res |-> res, classes |-> cl, nfts |-> n]

\* mutant: the symbol is not folded to lower case
class_id_of_mut(msg) == msg.symbol \o <<"-">> \o msg.issuer

\* format!("{}-{}", msg.symbol.to_lowercase(), msg.issuer)
class_id_of(msg) == to_lowercase(msg.symbol) \o <<"-">> \o msg.issuer

issue_class(cl, n, sender, msg) ==
    LET class_id == class_id_of(msg)
    IN IF msg.issuer # sender THEN NOut(Err("Invalid issuer. issuer in msg must match sender."), cl, n)
       ELSE IF class_id \in DOMAIN cl THEN NOut(ErrArg("NFT class already exists", class_id), cl, n)
       ELSE NOut(Ok(<<Event("/coreum.asset.nft.v1.EventClassIssued",
                            << <<"class_id", class_id>>, <<"issuer", msg.issuer>> >>)>>),
                 [c \in (DOMAIN cl) \cup {class_id} |-> IF c = class_id THEN msg ELSE cl[c]], n)

\* mutant: the live record of the pair is not looked up
nft_minted_mut(n, class_id, nft_id) == FALSE

\* MINTED_NFTS.may_load(storage, (class_id, nft_id))?.is_some()
nft_minted(n, class_id, nft_id) == <<class_id, nft_id>> \in DOMAIN n

\* mutant: the new token always belongs to the sender
nft_mint_owner_mut(msg) == msg.sender

\* the owner of a new token: the recipient, or the sender when it is empty
nft_mint_owner(msg) == IF msg.recipient = EMPTY THEN msg.sender ELSE msg.recipient

\* mutant: the record is built with class id and token id exchanged
nft_stored_mut(msg, owner) ==
    [class_id |-> msg.id, id |-> msg.class_id, owner |-> owner, uri |-> msg.uri, data |-> msg.data]

\* the StoredNft built by nft_mint
nft_stored(msg, owner) ==
    [class_id |-> msg.class_id, id |-> msg.id, owner |-> owner, uri |-> msg.uri, data |-> msg.data]

\* MINTED_NFTS.save(storage, (class_id, nft_id), &stored)
nfts_save(n, class_id, nft_id, stored) ==
    [k \in (DOMAIN n) \cup {<<class_id, nft_id>>} |-> IF k = <<class_id, nft_id>> THEN stored ELSE n[k]]

nft_mint(cl, n, sender, msg) ==
    LET class_id == msg.class_id
        nft_id == msg.id
        owner == nft_mint_owner(msg)
    IN IF msg.sender # sender THEN NOut(Err("Invalid sender. sender in msg must match tx sender."), cl, n)
       ELSE IF class_id \notin DOMAIN cl
            THEN NOut(ErrArg("MsgMint for unknown Coreum NFT class", class_id), cl, n)
       ELSE IF cl[class_id].issuer # sender
            THEN NOut(ErrArg("Unauthorized mint. Not the issuer of class", class_id), cl, n)
       ELSE IF nft_minted(n, class_id, nft_id)
            THEN NOut(ErrArg("NFT already minted", class_id \o <<"/">> \o nft_id), cl, n)
       ELSE NOut(Ok(<<Event("/coreum.asset.nft.v1.EventMinted",
                            << <<"class_id", class_id>>, <<"id", nft_id>>, <<"owner", owner>> >>)>>),
                 cl, nfts_save(n, class_id, nft_id, nft_stored(msg, owner)))

\* mutant: the class issuer may burn whatever the class features are
burn_denied_mut(stored, class, sender) ==
    stored.owner # sender /\ ~(class.issuer = sender)

\* stored.owner != sender && !(issuer_may_burn && class.issuer == sender)
burn_denied(stored, class, sender) ==
    stored.owner # sender /\ ~(Burning \in class.features /\ class.issuer = sender)

nft_burn(cl, n, sender, msg) ==
    LET class_id == msg.class_id
        nft_id == msg.id
    IN IF msg.sender # sender THEN NOut(Err("Invalid sender. sender in msg must match tx sender."), cl, n)
       ELSE IF class_id \notin DOMAIN cl THEN NOut(ErrArg("Class id not found", class_id), cl, n)
       ELSE IF <<class_id, nft_id>> \notin DOMAIN n
            THEN NOut(ErrArg("NFT not found", class_id \o <<"/">> \o nft_id), cl, n)
       ELSE IF burn_denied(n[<<class_id, nft_id>>], cl[class_id], sender)
            THEN NOut(ErrArg("Unauthorized burn. Only owner or issuer can burn", class_id \o <<"/">> \o nft_id), cl, n)
       ELSE NOut(Ok(<<Event("/coreum.asset.nft.v1.EventBurned",
                            << <<"class_id", class_id>>, <<"id", nft_id>>, <<"owner", sender>> >>)>>),
                 cl, [k \in (DOMAIN n) \ {<<class_id, nft_id>>} |-> n[k]])

\* is_soulbound && class.issuer == sender: the issuer's override in a soulbound class
send_override(class, sender) == Soulbound \in class.features /\ class.issuer = sender

\* mutant: anyone may send
send_denied_mut(stored, class, sender) == FALSE

\* stored.owner != sender && !(is_soulbound && class.issuer == sender)
send_denied(stored, class, sender) == stored.owner # sender /\ ~send_override(class, sender)

\* mutant: the record is saved with the owner it had
set_owner_mut(stored, to) == stored

\* stored.owner = to
set_owner(stored, to) == [stored EXCEPT !.owner = to]

\* mutant: the record is saved before the receiver is checked
nft_send_mut(cl, n, sender, msg) ==
    LET class_id == msg.class_id
        nft_id == msg.id
    IN IF class_id \notin DOMAIN cl THEN NOut(ErrArg("Class id not found", class_id), cl, n)
       ELSE IF <<class_id, nft_id>> \notin DOMAIN n
            THEN NOut(ErrArg("NFT not found", class_id \o <<"/">> \o nft_id), cl, n)
       ELSE IF msg.sender # sender /\ ~send_override(cl[class_id], sender)
            THEN NOut(Err("Invalid sender. sender in msg must match tx sender."), cl, n)
       ELSE IF send_denied(n[<<class_id, nft_id>>], cl[class_id], sender)
            THEN NOut(ErrArg("Unauthorized send. Only owner can send", class_id \o <<"/">> \o nft_id), cl, n)
       ELSE IF msg.receiver = EMPTY
            THEN NOut(Err("MsgSend.receiver is empty"), cl,
                      nfts_save(n, class_id, nft_id, set_owner(n[<<class_id, nft_id>>], msg.receiver)))
       ELSE NOut(Ok(<<Event("/coreum.asset.nft.v1.EventSent",
                            << <<"class_id", class_id>>, <<"id", nft_id>>,
                               <<"sender", msg.sender>>, <<"receiver", msg.receiver>> >>)>>),
                 cl, nfts_save(n, class_id, nft_id, set_owner(n[<<class_id, nft_id>>], msg.receiver)))

nft_send(cl, n, sender, msg) ==
    LET class_id == msg.class_id
        nft_id == msg.id
    IN IF class_id \notin DOMAIN cl THEN NOut(ErrArg("Class id not found", class_id), cl, n)
       ELSE IF <<class_id, nft_id>> \notin DOMAIN n
            THEN NOut(ErrArg("NFT not found", class_id \o <<"/">> \o nft_id), cl, n)
       ELSE IF msg.sender # sender /\ ~send_override(cl[class_id], sender)
            THEN NOut(Err("Invalid sender. sender in msg must match tx sender."), cl, n)
       ELSE IF send_denied(n[<<class_id, nft_id>>], cl[class_id], sender)
            THEN NOut(ErrArg("Unauthorized send. Only owner can send", class_id \o <<"/">> \o nft_id), cl, n)
       ELSE IF msg.receiver = EMPTY THEN NOut(Err("MsgSend.receiver is empty"), cl, n)
       ELSE NOut(Ok(<<Event("/coreum.asset.nft.v1.EventSent",
                            << <<"class_id", class_id>>, <<"id", nft_id>>,
                               <<"sender", msg.sender>>, <<"receiver", msg.receiver>> >>)>>),
                 cl, nfts_save(n, class_id, nft_id, set_owner(n[<<class_id, nft_id>>], msg.receiver)))

(***************************************************************************)
(* Custom Query Module: the NFT queries over MINTED_NFTS.                  *)
(***************************************************************************)
\* the characters explored, in byte order
AsciiOrder ==
    <<"-", ".", "/", "0","1","2","3","4","5","6","7","8","9", ":">> \o UpperSeq \o <<"_">> \o LowerSeq

CharOrd(c) == CHOOSE i \in 1..Len(AsciiOrder) : AsciiOrder[i] = c

\* byte-wise lexicographic order of two strings
RECURSIVE BytesLess(_, _)
BytesLess(s, t) ==
    IF Len(t) = 0 THEN FALSE
    ELSE IF Len(s) = 0 THEN TRUE
    ELSE IF s[1] # t[1] THEN CharOrd(s[1]) < CharOrd(t[1])
    ELSE BytesLess(Tail(s), Tail(t))

\* order of the composite keys of MINTED_NFTS: the class id is stored behind
\* its length, the token id follows
KeyLess(k1, k2) ==
    IF Len(k1[1]) # Len(k2[1]) THEN Len(k1[1]) < Len(k2[1])
    ELSE IF k1[1] # k2[1] THEN BytesLess(k1[1], k2[1])
    ELSE BytesLess(k1[2], k2[2])

\* MINTED_NFTS.range(storage, None, None, Order::Ascending): the keys in order
RECURSIVE KeysAscending(_)
KeysAscending(ks) ==
    IF ks = {} THEN <<>>
    ELSE LET m == CHOOSE k \in ks : \A j \in ks \ {k} : KeyLess(k, j)
         IN <<m>> \o KeysAscending(ks \ {m})

NoFilter == [some |-> FALSE, val |-> EMPTY]
Filter(v) == [some |-> TRUE, val |-> v]

\* StoredNft -> nft::NFT
nft_of(stored) ==
    [class_id |-> stored.class_id, id |-> stored.id,
     uri |-> IF stored.uri = EMPTY THEN NoFilter ELSE Filter(stored.uri),
     data |-> stored.data]

\* nft::Query::NFT { class_id, id }
query_nft(n, class_id, id) ==
    IF <<class_id, id>> \notin DOMAIN n
    THEN [ok |-> FALSE, err |-> "NFT not found for", nft |-> nft_of(nft_stored([class_id |-> EMPTY, id |-> EMPTY, uri |-> EMPTY, data |-> NoData], EMPTY))]
    ELSE [ok |-> TRUE, err |-> "", nft |-> nft_of(n[<<class_id, id>>])]

\* mutant: the owner query answers for an absent record too
query_owner_mut(n, class_id, id) ==
    IF <<class_id, id>> \notin DOMAIN n
    THEN [ok |-> TRUE, err |-> "", owner |-> EMPTY]
    ELSE [ok |-> TRUE, err |-> "", owner |-> n[<<class_id, id>>].owner]

\* nft::Query::Owner { class_id, id }
query_owner(n, class_id, id) ==
    IF <<class_id, id>> \notin DOMAIN n
    THEN [ok |-> FALSE, err |-> "NFT not found for", owner |-> EMPTY]
    ELSE [ok |-> TRUE, err |-> "", owner |-> n[<<class_id, id>>].owner]

\* assetnft::Query::Class { id }
query_class(cl, id) ==
    IF id \notin DOMAIN cl
    THEN [ok |-> FALSE, err |-> "NFT class not found for id", arg |-> id,
          class |-> [id |-> EMPTY, issuer |-> EMPTY, symbol |-> EMPTY, features |-> {}]]
    ELSE [ok |-> TRUE, err |-> "", arg |-> EMPTY,
          class |-> [id |-> id, issuer |-> cl[id].issuer, symbol |-> cl[id].symbol,
                     features |-> cl[id].features]]

\* mutant: the owner filter is not applied
query_nfts_mut(n, class_filter, owner_filter) ==
    LET Kept(k) == class_filter.some => k[1] = class_filter.val
        ks == SelectSeq(KeysAscending(DOMAIN n), Kept)
    IN [i \in 1..Len(ks) |-> nft_of(n[ks[i]])]

\* nft::Query::NFTs { class_id, owner, pagination }: scan in key order, filter locally
query_nfts(n, class_filter, owner_filter) ==
    LET Kept(k) == /\ (class_filter.some => k[1] = class_filter.val)
                   /\ (owner_filter.some => n[k].owner = owner_filter.val)
        ks == SelectSeq(KeysAscending(DOMAIN n), Kept)
    IN [i \in 1..Len(ks) |-> nft_of(n[ks[i]])]

(***************************************************************************)
(* NFT requests explored and the NFT state machine.                        *)
(***************************************************************************)
NftSenders == {ALI, BOB}
NFT_ALI == cls_sym \o <<"-">> \o ALI

IssueClassMsgs == [issuer : {ALI}, symbol : {CLS_SYM, cls_sym}, features : {{}, {Burning}, {Soulbound}}]

\* tokens 1 and 2 of the class, and token 1 of a class that is never issued
NftKeys == [class_id : {NFT_ALI}, id : {ID1, ID2}] \cup [class_id : {SUB_ALI}, id : {ID1}]

NftMintMsgs ==
    {[sender |-> s, class_id |-> k.class_id, id |-> k.id, recipient |-> r, uri |-> URI, data |-> NoData] :
        s \in NftSenders, k \in NftKeys, r \in {EMPTY, BOB, CAR}}

NftBurnMsgs == {[sender |-> s, class_id |-> k.class_id, id |-> k.id] : s \in NftSenders, k \in NftKeys}

NftSendMsgs ==
    {[sender |-> s, class_id |-> k.class_id, id |-> k.id, receiver |-> r] :
        s \in NftSenders, k \in NftKeys, r \in {EMPTY, ALI, BOB, CAR}}

NCall(op, sender, msg, o) ==
    /\ classes' = o.classes
    /\ nfts' = o.nfts
    /\ last' = [op |-> op, sender |-> sender, msg |-> msg, res |-> o.res]
    /\ prev' = PrevOf(last)
    /\ UNCHANGED <<variant, bank, issued>>

NftIssueClass ==
    \E sender \in NftSenders, msg \in IssueClassMsgs :
        NCall("issue_class", sender, msg, issue_class(classes, nfts, sender, msg))

NftMint ==
    \E sender \in NftSenders, msg \in NftMintMsgs :
        NCall("nft_mint", sender, msg, nft_mint(classes, nfts, sender, msg))

NftBurn ==
    \E sender \in NftSenders, msg \in NftBurnMsgs :
        NCall("nft_burn", sender, msg, nft_burn(classes, nfts, sender, msg))

NftSend ==
    \E sender \in NftSenders, msg \in NftSendMsgs :
        NCall("nft_send", sender, msg, nft_send(classes, nfts, sender, msg))

NftInit ==
    /\ variant = "coreum"
    /\ bank = InitBank
    /\ issued = <<>>
    /\ last = [op |-> "none", sender |-> EMPTY, msg |-> NoCoin, res |-> Ok(<<>>)]
    /\ prev = NoPrev
    /\ classes = <<>>
    /\ nfts = <<>>

NftNext ==
    \/ NftIssueClass
    \/ NftMint
    \/ NftBurn
    \/ NftSend

NftSpec == NftInit /\ [][NftNext]_vars

(***************************************************************************)
(* Issuance records and the single-denom FT query of the Coreum variant:   *)
(* one denom issued and re-issued with different attributes, minted and    *)
(* burned.                                                                 *)
(***************************************************************************)
DESC == <<"d">>
NATIVE_SYMBOL == <<"C","O","R","E">>
NATIVE_DESCRIPTION ==
    <<"N","a","t","i","v","e"," ","C","o","r","e","u","m"," ","t","o","k","e","n">>

\* what the query handler returns: the serialized response or the error
QOk(v) == [ok |-> TRUE, err |-> "", arg |-> EMPTY, val |-> v]
QErr(m, a) == [ok |-> FALSE, err |-> m, arg |-> a, val |-> <<>>]

\* coreum_wasm_sdk::assetft::Token built from an issuance record
token_of(denom, rec) ==
    [denom |-> denom, issuer |-> rec.issuer, symbol |-> rec.symbol, subunit |-> rec.subunit,
     precision |-> rec.precision, description |-> rec.description]

\* the default token returned for the native chain denom
native_token_mut(denom) ==
    [denom |-> denom, issuer |-> EMPTY, symbol |-> NATIVE_SYMBOL, subunit |-> denom,
     precision |-> 0, description |-> NATIVE_DESCRIPTION]

native_token(denom) ==
    [denom |-> denom, issuer |-> EMPTY, symbol |-> NATIVE_SYMBOL, subunit |-> denom,
     precision |-> 6, description |-> NATIVE_DESCRIPTION]

\* CoreumQueries::AssetFT(Query::Token { denom })
query_token(iss, denom) ==
    IF denom \in DOMAIN iss THEN QOk(token_of(denom, iss[denom]))
    ELSE IF denom = DEFAULT_COIN_DENOM THEN QOk(native_token(denom))
    ELSE QErr("FT not found for denom", denom)

TkIssueMsgs ==
    [issuer : {ALI}, subunit : {SUB, DEFAULT_COIN_DENOM}, symbol : {SYM, SYM2}, precision : {6},
     description : {EMPTY, DESC}, initial_amount : {EMPTY, <<"1">>}]

TkMintMsgs == [sender : {ALI}, coin : {SomeCoin(SUB_ALI, <<"1">>)}, recipient : {ALI, BOB}]
TkBurnMsgs == [sender : {ALI}, coin : {SomeCoin(SUB_ALI, <<"1">>)}]

\* the denoms the token query is asked about
TkDenoms == {DEFAULT_COIN_DENOM, SUB_ALI, SUB_BOB, DEFAULT_COIN_DENOM \o <<"-">> \o ALI}

TkIssue ==
    \E sender \in TxSenders, msg \in TkIssueMsgs :
        LET o == issue(bank, issued, sender, msg)
        IN WithinSupply(o, SomeCoin(issue_to_denom(msg), EMPTY))
           /\ Call("issue", sender, msg, o)

TkMint ==
    \E sender \in TxSenders, msg \in TkMintMsgs :
        LET o == mint(bank, issued, sender, msg)
        IN WithinSupply(o, msg.coin) /\ Call("mint", sender, msg, o)

TkBurn ==
    \E sender \in TxSenders, msg \in TkBurnMsgs :
        Call("burn", sender, msg, burn(bank, issued, sender, msg))

TkInit ==
    /\ variant = "coreum"
    /\ bank = InitBank
    /\ issued = <<>>
    /\ last = [op |-> "none", sender |-> EMPTY, msg |-> NoCoin, res |-> Ok(<<>>)]
    /\ prev = NoPrev
    /\ classes = <<>>
    /\ nfts = <<>>

TkNext ==
    \/ TkIssue
    \/ TkMint
    \/ TkBurn

TokenSpec == TkInit /\ [][TkNext]_vars

(***************************************************************************)
(* Module::execute of both variants: the dispatch on the type URL.         *)
(***************************************************************************)
\* coreum::asset::ft::v1::{MsgIssue, MsgMint, MsgBurn}::TYPE_URL
URL_ISSUE == "/coreum.asset.ft.v1.MsgIssue"
URL_MINT == "/coreum.asset.ft.v1.MsgMint"
URL_BURN == "/coreum.asset.ft.v1.MsgBurn"
\* coreum::asset::nft::v1::{MsgIssueClass, MsgMint, MsgBurn}::TYPE_URL
URL_ISSUE_CLASS == "/coreum.asset.nft.v1.MsgIssueClass"
URL_NFT_MINT == "/coreum.asset.nft.v1.MsgMint"
URL_NFT_BURN == "/coreum.asset.nft.v1.MsgBurn"
\* cosmos::nft::v1beta1::MsgSend::TYPE_URL
URL_NFT_SEND == "/cosmos.nft.v1beta1.MsgSend"
\* osmosis::tokenfactory::v1beta1::{MsgCreateDenom, MsgMint, MsgBurn}::TYPE_URL
URL_TF_CREATE_DENOM == "/osmosis.tokenfactory.v1beta1.MsgCreateDenom"
URL_TF_MINT == "/osmosis.tokenfactory.v1beta1.MsgMint"
URL_TF_BURN == "/osmosis.tokenfactory.v1beta1.MsgBurn"
\* a type URL neither variant handles
URL_BANK_SEND == "/cosmos.bank.v1beta1.MsgSend"

\* the type URLs with an arm in handle_any
CoreumUrls ==
    {URL_ISSUE, URL_MINT, URL_BURN, URL_ISSUE_CLASS, URL_NFT_MINT, URL_NFT_BURN, URL_NFT_SEND}
GenericUrls == {URL_TF_CREATE_DENOM, URL_TF_MINT, URL_TF_BURN}

\* StargateMsg.value: the protobuf encoding of a message of the type named by
\* `url`, or bytes that decode as no message
Encoded(url, msg) == [url |-> url, msg |-> msg]
Garbage == [url |-> "", msg |-> NoCoin]

\* MsgX::try_from(value): succeeds on the encoding of a MsgX
decodes(value, url) == value.url = url

\* what execute returns and the module's and the bank's state as it leaves them
DOut(res, b, iss, cl, n) == [res |-> res, bank |-> b, issued |-> iss, classes |-> cl, nfts |-> n]
OfFt(o, cl, n) == DOut(o.res, o.bank, o.issued, cl, n)
OfNft(o, b, iss) == DOut(o.res, b, iss, o.classes, o.nfts)

\* mutant: a type URL without an arm is answered with an empty response
unknown_message_type_mut(type_url) == Ok(<<>>)

\* _ => bail!("Unknown message type {}", type_url)
unknown_message_type(type_url) == ErrArg("Unknown message type", type_url)

\* TokenFactory::handle_any, Coreum variant
handle_any(b, iss, cl, n, sender, type_url, value) ==
    LET undecoded(what) == DOut(Err(what), b, iss, cl, n)
    IN CASE type_url = URL_ISSUE ->
              IF ~decodes(value, type_url) THEN undecoded("failed to decode MsgIssue")
              ELSE OfFt(issue(b, iss, sender, value.msg), cl, n)
         [] type_url = URL_MINT ->
              IF ~decodes(value, type_url) THEN undecoded("failed to decode MsgMint")
              ELSE OfFt(mint(b, iss, sender, value.msg), cl, n)
         [] type_url = URL_BURN ->
              IF ~decodes(value, type_url) THEN undecoded("failed to decode MsgBurn")
              ELSE OfFt(burn(b, iss, sender, value.msg), cl, n)
         [] type_url = URL_ISSUE_CLASS ->
              IF ~decodes(value, type_url) THEN undecoded("failed to decode MsgIssueClass")
              ELSE OfNft(issue_class(cl, n, sender, value.msg), b, iss)
         [] type_url = URL_NFT_MINT ->
              IF ~decodes(value, type_url) THEN undecoded("failed to decode MsgMint (NFT)")
              ELSE OfNft(nft_mint(cl, n, sender, value.msg), b, iss)
         [] type_url = URL_NFT_BURN ->
              IF ~decodes(value, type_url) THEN undecoded("failed to decode MsgBurn (NFT)")
              ELSE OfNft(nft_burn(cl, n, sender, value.msg), b, iss)
         [] type_url = URL_NFT_SEND ->
              IF ~decodes(value, type_url) THEN undecoded("failed to decode MsgSend (NFT)")
              ELSE OfNft(nft_send(cl, n, sender, value.msg), b, iss)
         [] OTHER -> DOut(unknown_message_type(type_url), b, iss, cl, n)

\* TokenFactory::handle_any, generic variant; each handler decodes its own payload
tf_handle_any(b, iss, cl, n, sender, type_url, value) ==
    LET undecoded == DOut(Err("failed to decode"), b, iss, cl, n)
    IN CASE type_url = URL_TF_CREATE_DENOM ->
              IF ~decodes(value, type_url) THEN undecoded
              ELSE OfFt(create_denom(b, iss, sender, value.msg), cl, n)
         [] type_url = URL_TF_MINT ->
              IF ~decodes(value, type_url) THEN undecoded
              ELSE OfFt(tf_mint(b, iss, sender, value.msg), cl, n)
         [] type_url = URL_TF_BURN ->
              IF ~decodes(value, type_url) THEN undecoded
              ELSE OfFt(tf_burn(b, iss, sender, value.msg), cl, n)
         [] OTHER -> DOut(unknown_message_type(type_url), b, iss, cl, n)

F_ALI == module_denom_prefix \o <<"/">> \o ALI

\* the encoded messages sent to the Coreum variant
CoreumValues ==
    {Encoded(URL_ISSUE, [issuer |-> ALI, subunit |-> SUB, symbol |-> SYM, precision |-> 6,
                         initial_amount |-> <<"1">>]),
     Encoded(URL_MINT, [sender |-> ALI, coin |-> SomeCoin(SUB_ALI, <<"1">>), recipient |-> BOB]),
     Encoded(URL_BURN, [sender |-> ALI, coin |-> SomeCoin(SUB_ALI, <<"1">>)]),
     Encoded(URL_ISSUE_CLASS, [issuer |-> ALI, symbol |-> cls_sym, features |-> {}]),
     Encoded(URL_NFT_MINT, [sender |-> ALI, class_id |-> NFT_ALI, id |-> ID1, recipient |-> BOB,
                            uri |-> URI, data |-> NoData]),
     Encoded(URL_NFT_BURN, [sender |-> BOB, class_id |-> NFT_ALI, id |-> ID1]),
     Encoded(URL_NFT_SEND, [sender |-> BOB, class_id |-> NFT_ALI, id |-> ID1, receiver |-> CAR])}

\* the denoms of the generic mint and burn requests: a created one, one of two
\* parts, the bare module prefix, and one that is no factory denom
DxDenoms == {F_ALI_SUB, F_ALI, module_denom_prefix, SUB}

\* the encoded messages sent to the generic variant
GenericValues ==
    {Encoded(URL_TF_CREATE_DENOM, [sender |-> ALI, subdenom |-> SUB])}
    \cup {Encoded(URL_TF_MINT, [sender |-> ALI, amount |-> SomeCoin(d, <<"1">>), mint_to_address |-> r]) :
             d \in DxDenoms, r \in {EMPTY, BOB}}
    \cup {Encoded(URL_TF_BURN, [sender |-> ALI, amount |-> SomeCoin(d, <<"1">>), burn_from_address |-> ALI]) :
             d \in DxDenoms}

DxUrls == CoreumUrls \cup GenericUrls \cup {URL_BANK_SEND}
DxValues == CoreumValues \cup GenericValues \cup {Garbage}

\* a payload sent under a type URL: the encoding of a message of that type, or
\* undecodable bytes
Sendable(type_url, value) == value = Garbage \/ value.url = type_url

\* the denoms an execute call can add supply to
DxWithinSupply(o) ==
    o.res.ok => \A d \in DxDenoms \cup {SUB_ALI} : Supply(o.bank, d) <= MaxSupply

DCall(sender, type_url, value, o) ==
    /\ bank' = o.bank
    /\ issued' = o.issued
    /\ classes' = o.classes
    /\ nfts' = o.nfts
    /\ last' = [op |-> "execute", sender |-> sender,
                msg |-> [type_url |-> type_url, value |-> value], res |-> o.res]
    /\ prev' = PrevOf(last)
    /\ UNCHANGED variant

\* Module::execute of the Coreum TokenFactory
CoreumExecute ==
    /\ variant = "coreum"
    /\ \E sender \in TxSenders, type_url \in DxUrls, value \in DxValues :
          LET o == handle_any(bank, issued, classes, nfts, sender, type_url, value)
          IN /\ Sendable(type_url, value)
             /\ DxWithinSupply(o)
             /\ DCall(sender, type_url, value, o)

\* Module::execute of the generic TokenFactory
GenericExecute ==
    /\ variant = "generic"
    /\ \E sender \in TxSenders, type_url \in DxUrls, value \in DxValues :
          LET o == tf_handle_any(bank, issued, classes, nfts, sender, type_url, value)
          IN /\ Sendable(type_url, value)
             /\ DxWithinSupply(o)
             /\ DCall(sender, type_url, value, o)

DxInit ==
    /\ variant \in {"coreum", "generic"}
    /\ bank = InitBank
    /\ issued = <<>>
    /\ last = [op |-> "none", sender |-> EMPTY, msg |-> NoCoin, res |-> Ok(<<>>)]
    /\ prev = NoPrev
    /\ classes = <<>>
    /\ nfts = <<>>

DxNext ==
    \/ CoreumExecute
    \/ GenericExecute

DispatchSpec == DxInit /\ [][DxNext]_vars

(***************************************************************************)
(* The NFT listing over two classes whose ids differ in length.            *)
(***************************************************************************)
ZZ == <<"z","z">>
ZZ_ALI == ZZ \o <<"-">> \o ALI

\* PageResponse { next_key: None, total: Some(0) }
no_pagination == [next_key |-> [some |-> FALSE, val |-> 0], total |-> [some |-> TRUE, val |-> 0]]

\* NFTsResponse of nft::Query::NFTs
nfts_response(n, class_filter, owner_filter) ==
    [nfts |-> query_nfts(n, class_filter, owner_filter), pagination |-> no_pagination]

LsIssueClassMsgs == [issuer : {ALI}, symbol : {cls_sym, ZZ}, features : {{}}]
LsKeys == [class_id : {NFT_ALI, ZZ_ALI}, id : {ID1, ID2}]

LsMintMsgs ==
    {[sender |-> ALI, class_id |-> k.class_id, id |-> k.id, recipient |-> r, uri |-> u, data |-> NoData] :
        k \in LsKeys, r \in {EMPTY, BOB}, u \in {EMPTY, URI}}

LsBurnMsgs == {[sender |-> s, class_id |-> k.class_id, id |-> k.id] : s \in NftSenders, k \in LsKeys}

LsSendMsgs ==
    {[sender |-> s, class_id |-> k.class_id, id |-> k.id, receiver |-> r] :
        s \in NftSenders, k \in LsKeys, r \in {ALI, BOB}}

LsIssueClass ==
    \E msg \in LsIssueClassMsgs :
        NCall("issue_class", ALI, msg, issue_class(classes, nfts, ALI, msg))

LsMint ==
    \E msg \in LsMintMsgs :
        NCall("nft_mint", ALI, msg, nft_mint(classes, nfts, ALI, msg))

LsBurn ==
    \E msg \in LsBurnMsgs :
        NCall("nft_burn", msg.sender, msg, nft_burn(classes, nfts, msg.sender, msg))

LsSend ==
    \E msg \in LsSendMsgs :
        NCall("nft_send", msg.sender, msg, nft_send(classes, nfts, msg.sender, msg))

LsNext ==
    \/ LsIssueClass
    \/ LsMint
    \/ LsBurn
    \/ LsSend

ListSpec == NftInit /\ [][LsNext]_vars

(***************************************************************************)
(* Unified Stargate: the query bridge in front of an optional extension.   *)
(***************************************************************************)
QUERY_ALL_BALANCES_PATH == "/cosmos.bank.v1beta1.Query/AllBalances"
QUERY_BALANCE_PATH == "/cosmos.bank.v1beta1.Query/Balance"
QUERY_SUPPLY_PATH == "/cosmos.bank.v1beta1.Query/SupplyOf"
QUERY_WASM_CONTRACT_SMART_PATH == "/cosmwasm.wasm.v1.Query/SmartContractState"
QUERY_WASM_CONTRACT_RAW_PATH == "/cosmwasm.wasm.v1.Query/RawContractState"
QUERY_WASM_CONTRACT_INFO_PATH == "/cosmwasm.wasm.v1.Query/ContractInfo"
QUERY_WASM_CODE_INFO_PATH == "/cosmwasm.wasm.v1.Query/CodeInfo"

\* the paths with an arm in UnifiedStargate::query
BridgePaths ==
    {QUERY_ALL_BALANCES_PATH, QUERY_BALANCE_PATH, QUERY_SUPPLY_PATH,
     QUERY_WASM_CONTRACT_SMART_PATH, QUERY_WASM_CONTRACT_INFO_PATH}

\* UnifiedStargate.extra: None when the bridge is built without extension,
\* otherwise the TokenFactory of the variant in use
extra == IF variant = "bare" THEN [some |-> FALSE, val |-> ""] ELSE [some |-> TRUE, val |-> variant]

\* StargateQuery.data: the protobuf encoding of the request of `path`, or
\* bytes that decode as no request
QData(path, address, denom) == [path |-> path, address |-> address, denom |-> denom]
BadData == [path |-> "", address |-> EMPTY, denom |-> EMPTY]

\* QueryXRequest::decode(data): succeeds on the encoding of that request
decoded(request) == request.data.path = request.path

\* what querier.raw_query answers to a wasm query: a binary, a contract
\* error, or a system error
RawOk(bin) == [kind |-> "ok", bin |-> bin, err |-> ""]
RawContractErr(e) == [kind |-> "contract_err", bin |-> EMPTY, err |-> e]
RawSystemErr(e) == [kind |-> "system_err", bin |-> EMPTY, err |-> e]

\* the denoms an address holds, in the order of the bank's balance list
RECURSIVE DenomsAscending(_)
DenomsAscending(ds) ==
    IF ds = {} THEN <<>>
    ELSE LET m == CHOOSE d \in ds : \A e \in ds \ {d} : BytesLess(d, e)
         IN <<m>> \o DenomsAscending(ds \ {m})

\* ProtoCoin { denom, amount: amount.to_string() }
ProtoCoin(d, amt) == [denom |-> d, amount |-> ToDec(amt)]

\* BankQuery::AllBalances through the QuerierWrapper, re-encoded
all_balances(b, address) ==
    IF ~AddrValidate(address) THEN QErr("Querier contract error", addr_validate(address))
    ELSE LET ds == DenomsAscending({d \in {k[2] : k \in DOMAIN b} : <<address, d>> \in DOMAIN b})
         IN QOk([balances |-> [i \in 1..Len(ds) |-> ProtoCoin(ds[i], Balance(b, address, ds[i]))],
                 pagination |-> [some |-> FALSE]])

\* BankQuery::Balance through the QuerierWrapper, re-encoded
balance(b, address, denom) ==
    IF ~AddrValidate(address) THEN QErr("Querier contract error", addr_validate(address))
    ELSE QOk([balance |-> ProtoCoin(denom, Balance(b, address, denom))])

\* BankQuery::Supply through the QuerierWrapper, re-encoded
supply_of(b, denom) == QOk([amount |-> ProtoCoin(denom, Supply(b, denom))])

\* WasmQuery::Smart through querier.raw_query: both kinds of error are
\* returned as Err with the error's own text
smart(address, raw) ==
    IF raw.kind = "ok" THEN QOk([data |-> raw.bin])
    ELSE IF raw.kind = "contract_err" THEN QErr(raw.err, EMPTY)
    ELSE QErr(raw.err, EMPTY)

\* WasmQuery::ContractInfo through the QuerierWrapper, re-encoded
contract_info(address, raw) ==
    IF raw.kind = "ok"
    THEN QOk([address |-> address,
              contract_info |-> [code_id |-> raw.bin.code_id, creator |-> raw.bin.creator,
                                 admin |-> IF raw.bin.admin.some THEN raw.bin.admin.val ELSE EMPTY,
                                 label |-> EMPTY,
                                 ibc_port_id |-> IF raw.bin.ibc_port.some THEN raw.bin.ibc_port.val
                                                 ELSE EMPTY]])
    ELSE IF raw.kind = "contract_err" THEN QErr("Querier contract error", raw.err)
    ELSE QErr("Querier system error", raw.err)

\* Module::query of the extension: both TokenFactory variants refuse every query
extra_query(v, request) ==
    IF v = "coreum" THEN QErr("Unsupported query type: Stargate queries are disabled", EMPTY)
    ELSE QErr("Unexpected stargate query", <<request.path, request.data>>)

\* mutant: a path without an arm is never handed to the extension
unrecognized_mut(ext, request) ==
    QErr("Unexpected stargate query", <<request.path, request.data>>)

\* the default arm: the request goes to the extension as it came, or fails
unrecognized(ext, request) ==
    IF ext.some THEN extra_query(ext.val, request)
    ELSE QErr("Unexpected stargate query", <<request.path, request.data>>)

\* UnifiedStargate::query
us_query(ext, b, request, raw) ==
    LET path == request.path
        req == request.data
    IN IF path \notin BridgePaths THEN unrecognized(ext, request)
       ELSE IF ~decoded(request) THEN QErr("failed to decode", EMPTY)
       ELSE IF path = QUERY_ALL_BALANCES_PATH THEN all_balances(b, req.address)
       ELSE IF path = QUERY_BALANCE_PATH THEN balance(b, req.address, req.denom)
       ELSE IF path = QUERY_SUPPLY_PATH THEN supply_of(b, req.denom)
       ELSE IF path = QUERY_WASM_CONTRACT_SMART_PATH THEN smart(req.address, raw)
       ELSE contract_info(req.address, raw)

\* the paths asked: the seven of the module list and one of another module
UsPaths ==
    BridgePaths \cup {QUERY_WASM_CONTRACT_RAW_PATH, QUERY_WASM_CODE_INFO_PATH,
                      "/coreum.asset.ft.v1.Query/Token"}

UsData == {BadData} \cup {QData(p, a, d) : p \in UsPaths, a \in {EMPTY, ALI, BOB, AB, BOB_UPPER},
                                           d \in {DEFAULT_COIN_DENOM, SUB_ALI}}

UsRequests == {r \in [path : UsPaths, data : UsData] : r.data = BadData \/ r.data.path = r.path}

\* the binary a contract or the wasm keeper answers with
UsBin ==
    [code_id |-> 1, creator |-> ALI, admin |-> [some |-> FALSE, val |-> EMPTY],
     ibc_port |-> [some |-> FALSE, val |-> EMPTY]]

\* the answer for a contract that has an admin and an IBC port
WASM_BOB == <<"w", "a", "s", "m", ".">> \o BOB
UsBinPort ==
    [code_id |-> 7, creator |-> BOB, admin |-> [some |-> TRUE, val |-> ALI],
     ibc_port |-> [some |-> TRUE, val |-> WASM_BOB]]

UsRaw ==
    {RawOk(UsBin), RawOk(UsBinPort), RawContractErr("Generic error: boom"),
     RawSystemErr("No such contract: bob")}

\* Module::query of the bridge; the answer of the wasm querier is the environment's
UsQuery ==
    \E request \in UsRequests, raw \in UsRaw :
        /\ last' = [op |-> "query", sender |-> EMPTY,
                    msg |-> [path |-> request.path, data |-> request.data, raw |-> raw],
                    res |-> us_query(extra, bank, request, raw)]
        /\ prev' = PrevOf(last)
        /\ UNCHANGED <<variant, bank, issued, classes, nfts>>

\* the accounts of the app the bridge is asked about
UsInitBank ==
    [k \in {<<ALI, DEFAULT_COIN_DENOM>>, <<ALI, SUB_ALI>>, <<BOB, DEFAULT_COIN_DENOM>>} |->
        IF k[2] = SUB_ALI THEN 1 ELSE FeeUnits * FeeAmount]

UsInit ==
    /\ variant \in {"bare", "coreum", "generic"}
    /\ bank = UsInitBank
    /\ issued = <<>>
    /\ last = [op |-> "none", sender |-> EMPTY, msg |-> NoCoin, res |-> Ok(<<>>)]
    /\ prev = NoPrev
    /\ classes = <<>>
    /\ nfts = <<>>

UsNext == UsQuery

BridgeSpec == UsInit /\ [][UsNext]_vars

(***************************************************************************)
(* The denom-string parser applied to amounts followed by denoms.          *)
(***************************************************************************)
Hex64 == [i \in 1..64 |-> IF i % 2 = 1 THEN "2" ELSE "F"]
Hex37 == [i \in 1..37 |-> IF i % 2 = 1 THEN "2" ELSE "F"]
hex64 == [i \in 1..64 |-> "a"]

\* the amounts written in front of the denom: none, canonical ones, ones with
\* leading zeros, and one that is no number
SdkAmounts == {EMPTY, <<"0">>, <<"1">>, <<"1","0">>, <<"1","2">>,
               <<"0","7">>, <<"0","0","7">>, <<"0","0">>, <<"x">>}

\* the denoms of the parser's tests, and denoms next to each accepted shape
SdkDenoms ==
    {EMPTY, DEFAULT_COIN_DENOM, <<"u","C">>, <<"u","2">>, <<"2","u">>,
     <<"I","B","C","/">> \o Hex64, <<"i","b","c","/">> \o Hex64, <<"I","b","c","/">> \o Hex64,
     <<"I","B","C","/">> \o Hex37, <<"I","B","/">> \o Hex64, <<"i","b","c","/">> \o hex64,
     <<"I","B","C","/">> \o Hex64 \o <<"A">>,
     F_ALI_SUB, module_denom_prefix \o <<"/">> \o <<"a","1">> \o <<"/">> \o <<"s","2","M">>,
     <<"f","a","c","t","o","r","/">> \o ALI \o <<"/">> \o SUB,
     F_ALI_SUB \o <<"/">> \o <<"x">>, module_denom_prefix \o <<"/">> \o ALI,
     module_denom_prefix \o <<"/">> \o <<"A">> \o <<"/">> \o SUB,
     SUB_ALI, <<"s","2","-","A","l","1">>, <<"2","a","b","-">> \o ALI, <<"2","-">> \o ALI,
     SUB \o <<"-">>, <<"-">> \o ALI, <<"S","-">> \o ALI, S_B \o <<"-">> \o ALI}

\* coin_from_sdk_string(&format!("{}{}", amount, denom))
Parse ==
    \E a \in SdkAmounts, d \in SdkDenoms :
        /\ last' = [op |-> "parse", sender |-> EMPTY,
                    msg |-> [amount |-> a, denom |-> d, sdk_string |-> a \o d],
                    res |-> coin_from_sdk_string(variant, a \o d)]
        /\ prev' = PrevOf(last)
        /\ UNCHANGED <<variant, bank, issued, classes, nfts>>

PsNext == Parse

ParseSpec == Init /\ [][PsNext]_vars

(***************************************************************************)
(* Execute and sudo through the Unified Stargate, and the sudo entry       *)
(* points of the modules behind it.                                        *)
(***************************************************************************)
\* mutant: the sudo call wipes the issuance records
tf_sudo_mut(b, iss, cl, n) == DOut(Ok(<<>>), b, <<>>, cl, n)

\* TokenFactory::sudo of both variants: Ok(AppResponse::default())
tf_sudo(b, iss, cl, n) == DOut(Ok(<<>>), b, iss, cl, n)

\* CoreumQueryModule::sudo: Ok(AppResponse::default())
cq_sudo(b, iss, cl, n) == DOut(Ok(<<>>), b, iss, cl, n)

\* Module::execute of the extension
extra_execute(v, b, iss, cl, n, sender, type_url, value) ==
    IF v = "coreum" THEN handle_any(b, iss, cl, n, sender, type_url, value)
    ELSE tf_handle_any(b, iss, cl, n, sender, type_url, value)

\* mutant: the bridge refuses every execute, extension or not
us_execute_mut(ext, b, iss, cl, n, sender, type_url, value) ==
    DOut(ErrArg("No stargate exec handler for", type_url), b, iss, cl, n)

\* UnifiedStargate::execute
us_execute(ext, b, iss, cl, n, sender, type_url, value) ==
    IF ext.some THEN extra_execute(ext.val, b, iss, cl, n, sender, type_url, value)
    ELSE DOut(ErrArg("No stargate exec handler for", type_url), b, iss, cl, n)

\* UnifiedStargate::sudo
us_sudo(ext, b, iss, cl, n) ==
    IF ext.some THEN tf_sudo(b, iss, cl, n)
    ELSE DOut(Ok(<<>>), b, iss, cl, n)

\* a call that takes no message
FCall(op, o) ==
    /\ bank' = o.bank
    /\ issued' = o.issued
    /\ classes' = o.classes
    /\ nfts' = o.nfts
    /\ last' = [op |-> op, sender |-> EMPTY, msg |-> NoCoin, res |-> o.res]
    /\ prev' = PrevOf(last)
    /\ UNCHANGED variant

UsExecute ==
    \E sender \in TxSenders, type_url \in DxUrls, value \in DxValues :
        LET o == us_execute(extra, bank, issued, classes, nfts, sender, type_url, value)
        IN /\ Sendable(type_url, value)
           /\ DxWithinSupply(o)
           /\ DCall(sender, type_url, value, o)

UsSudo == FCall("us_sudo", us_sudo(extra, bank, issued, classes, nfts))

\* the sudo entry point of the Token Factory, called on the module itself
TfSudo ==
    /\ variant \in {"coreum", "generic"}
    /\ FCall("sudo", tf_sudo(bank, issued, classes, nfts))

\* the sudo entry point of the Custom Query Module
CqSudo ==
    /\ variant = "coreum"
    /\ FCall("cq_sudo", cq_sudo(bank, issued, classes, nfts))

FwInit ==
    /\ variant \in {"bare", "coreum", "generic"}
    /\ bank = InitBank
    /\ issued = <<>>
    /\ last = [op |-> "none", sender |-> EMPTY, msg |-> NoCoin, res |-> Ok(<<>>)]
    /\ prev = NoPrev
    /\ classes = <<>>
    /\ nfts = <<>>

FwNext ==
    \/ UsExecute
    \/ UsSudo
    \/ TfSudo
    \/ CqSudo

ForwardSpec == FwInit /\ [][FwNext]_vars

(***************************************************************************)
(* The life cycle of a Coreum denom: issued with a positive initial        *)
(* amount, minted, burned down to nothing and issued again.  One subunit   *)
(* contains the '-' that also separates subunit and issuer in the denom.   *)
(* One funded account has an address the bank does not accept as the       *)
(* target of a mint, and so have two of the recipients.                    *)
(***************************************************************************)
S_B_ALI == S_B \o <<"-">> \o ALI

LfSenders == {ALI, BOB, ALI_UPPER}

LfIssueMsgs ==
    [issuer : {ALI}, subunit : {SUB, S_B}, symbol : {SYM}, precision : {6},
     initial_amount : {<<"1">>, <<"2">>}]
    \cup [issuer : {ALI_UPPER}, subunit : {SUB}, symbol : {SYM}, precision : {6},
          initial_amount : {<<"1">>}]

LfCoins == {SomeCoin(d, a) : d \in {SUB_ALI, S_B_ALI}, a \in {<<"1">>, <<"2">>}}

LfMintMsgs == [sender : {ALI}, coin : LfCoins, recipient : {ALI, BOB, AB, BOB_UPPER}]
LfBurnMsgs == [sender : {ALI}, coin : LfCoins]

LfIssue ==
    \E sender \in LfSenders, msg \in LfIssueMsgs :
        Call("issue", sender, msg, issue(bank, issued, sender, msg))

LfMint ==
    \E sender \in TxSenders, msg \in LfMintMsgs :
        LET o == mint(bank, issued, sender, msg)
        IN WithinSupply(o, msg.coin) /\ Call("mint", sender, msg, o)

LfBurn ==
    \E sender \in TxSenders, msg \in LfBurnMsgs :
        Call("burn", sender, msg, burn(bank, issued, sender, msg))

LfInit ==
    /\ variant = "coreum"
    /\ bank = [k \in {<<ALI, DEFAULT_COIN_DENOM>>, <<ALI_UPPER, DEFAULT_COIN_DENOM>>}
                  |-> IF k[1] = ALI THEN FeeUnits * FeeAmount ELSE FeeAmount]
    /\ issued = <<>>
    /\ last = [op |-> "none", sender |-> EMPTY, msg |-> NoCoin, res |-> Ok(<<>>)]
    /\ prev = NoPrev
    /\ classes = <<>>
    /\ nfts = <<>>

LfNext ==
    \/ LfIssue
    \/ LfMint
    \/ LfBurn

LifeSpec == LfInit /\ [][LfNext]_vars

(***************************************************************************)
(* The denom check of the generic mint and burn, with denoms of one to     *)
(* four parts under the module prefix and under a foreign one.  The bare   *)
(* prefix is sent in DispatchSpec.                                         *)
(***************************************************************************)
X_ALI == <<"x", "/">> \o ALI
X_ALI_SUB == X_ALI \o <<"/">> \o SUB
F_ALI_SUB_X == F_ALI_SUB \o <<"/", "x">>
X_ALI_SUB_X == X_ALI_SUB \o <<"/", "x">>

PxDenoms == {F_ALI_SUB, F_ALI, F_ALI_SUB_X, SUB, X_ALI, X_ALI_SUB, X_ALI_SUB_X}

PxCoins == {SomeCoin(d, <<"1">>) : d \in PxDenoms}

PxMintMsgs == [sender : {ALI}, amount : PxCoins, mint_to_address : {EMPTY}]
PxBurnMsgs == [sender : {ALI}, amount : PxCoins, burn_from_address : {ALI}]

PxMint ==
    \E sender \in TxSenders, msg \in PxMintMsgs :
        LET o == tf_mint(bank, issued, sender, msg)
        IN WithinSupply(o, msg.amount) /\ Call("mint", sender, msg, o)

PxBurn ==
    \E sender \in TxSenders, msg \in PxBurnMsgs :
        Call("burn", sender, msg, tf_burn(bank, issued, sender, msg))

PxInit ==
    /\ variant = "generic"
    /\ bank = InitBank
    /\ issued = <<>>
    /\ last = [op |-> "none", sender |-> EMPTY, msg |-> NoCoin, res |-> Ok(<<>>)]
    /\ prev = NoPrev
    /\ classes = <<>>
    /\ nfts = <<>>

PxNext ==
    \/ PxMint
    \/ PxBurn

PrefixSpec == PxInit /\ [][PxNext]_vars

(***************************************************************************)
(* Properties.                                                             *)
(***************************************************************************)
Coreum == variant = "coreum"
Generic == variant = "generic"

\* the coin of a mint or burn request, in either variant
CoinOf(l) == IF Coreum THEN l.msg.coin ELSE l.msg.amount

\* the initial amount an issue request asks for (0 when empty)
InitialOf(msg) == IF msg.initial_amount = EMPTY THEN 0 ELSE ParseU128(msg.initial_amount).val

\* C1: in the Coreum variant a mint or burn whose denom is <subunit>-<issuer>
\* with <issuer> different from the transaction sender returns an error and
\* changes no bank balance (hence no supply), whatever the other fields are.
C1_ForeignDenomRejected ==
    [][(/\ Coreum
        /\ last'.op \in {"mint", "burn"}
        /\ last'.msg.coin.some
        /\ Len(Split(last'.msg.coin.denom, "-")) = 2
        /\ Split(last'.msg.coin.denom, "-")[2] # last'.sender)
       => (~last'.res.ok /\ bank' = bank)]_vars

\* C1 witness: a non-issuer, declaring itself as sender, asked to mint a nonzero
\* amount of an issued denom and was refused.
C1_Witness ==
    /\ Coreum
    /\ last.op = "mint"
    /\ last.sender = BOB /\ last.msg.sender = BOB
    /\ last.msg.coin = SomeCoin(SUB_ALI, <<"1">>)
    /\ SUB_ALI \in DOMAIN issued
    /\ last.res.err = "Unauthorized mint. Not the issuer of the denom."

\* C2: an issue (Coreum) or create-denom (generic) that passes field validation
\* while its denom has nonzero supply fails with "Subdenom already exists",
\* and that call burns no fee and mints nothing.
C2_ExistingSupplyRejected ==
    [][(\/ (/\ Coreum /\ last'.op = "issue"
            /\ issue_validate(last'.sender, last'.msg) = ""
            /\ Supply(bank, issue_to_denom(last'.msg)) # 0)
        \/ (/\ Generic /\ last'.op = "create_denom"
            /\ create_denom_validate(last'.sender, last'.msg) = ""
            /\ Supply(bank, create_denom_name(last'.msg)) # 0))
       => (last'.res.err = "Subdenom already exists" /\ bank' = bank)]_vars

\* C2 witness: an issue of a denom in circulation was refused although the
\* sender still held the creation fee.
C2_Witness ==
    /\ Coreum
    /\ last.op = "issue"
    /\ last.res.err = "Subdenom already exists"
    /\ Supply(bank, SUB_ALI) = 2
    /\ Balance(bank, ALI, DEFAULT_COIN_DENOM) >= FeeAmount

\* C3 as claimed: whenever an issue of D succeeded and the same sender issues D
\* again right after it, the second issue fails, whatever the initial amount.
C3_Original ==
    (/\ Coreum /\ prev.ok
     /\ last.op = "issue"
     /\ last.sender = prev.sender
     /\ issue_to_denom(last.msg) = prev.denom)
    => ~last.res.ok

\* C3 amended: when the first issue minted a positive initial amount, the second
\* issue of the same denom fails and changes no balance; it is refused as
\* "Subdenom already exists" whenever its fields pass validation.
C3_ReissueAfterPositiveFails ==
    (/\ Coreum /\ prev.ok
     /\ last.op = "issue"
     /\ last.sender = prev.sender
     /\ issue_to_denom(last.msg) = prev.denom
     /\ ParseU128(prev.initial).ok /\ ParseU128(prev.initial).val > 0)
    => /\ ~last.res.ok
       /\ Supply(bank, prev.denom) = ParseU128(prev.initial).val
       /\ (issue_validate(last.sender, last.msg) = "" => last.res.err = "Subdenom already exists")

\* C3 witness: the same request was issued twice in a row with initial amount 2
\* and the second call was refused.
C3_Witness ==
    /\ Coreum /\ prev.ok
    /\ prev.denom = SUB_ALI /\ prev.initial = <<"2">>
    /\ last.op = "issue" /\ last.sender = prev.sender
    /\ last.msg.subunit = SUB /\ last.msg.symbol = SYM /\ last.msg.initial_amount = <<"2">>
    /\ last.res.err = "Subdenom already exists"

\* C4: after a successful Coreum issue of D with initial amount N, the issuer's
\* balance of D and the supply of D both equal N (0 when N is empty or zero).
C4_IssueMintsInitialAmount ==
    (Coreum /\ last.op = "issue" /\ last.res.ok)
    => /\ Balance(bank, last.msg.issuer, issue_to_denom(last.msg)) = InitialOf(last.msg)
       /\ Supply(bank, issue_to_denom(last.msg)) = InitialOf(last.msg)

\* C4 witness: an issue with initial amount 2 succeeded.
C4_Witness ==
    /\ Coreum /\ last.op = "issue" /\ last.res.ok
    /\ last.msg.initial_amount = <<"2">>
    /\ Balance(bank, ALI, SUB_ALI) = 2

\* the declared recipient of a mint request, in either variant
RecipientOf(l) == IF Coreum THEN l.msg.recipient ELSE l.msg.mint_to_address

\* the sender and denom checks of a mint or burn request pass: the denom has the
\* variant's shape, names the transaction sender, and the declared sender is
\* the transaction sender
Rightful(l) ==
    /\ CoinOf(l).some
    /\ l.msg.sender = l.sender
    /\ IF Coreum
       THEN LET parts == Split(CoinOf(l).denom, "-") IN Len(parts) = 2 /\ parts[2] = l.sender
       ELSE LET parts == Split(CoinOf(l).denom, "/")
            IN Len(parts) = 3 /\ parts[1] = module_denom_prefix /\ parts[2] = l.sender

AmountOf(l) == ParseU128(CoinOf(l).amount)

\* every balance is the same in b2 as in b1, except that of <<a, d>>, which grew by delta
OnlyChanged(b1, b2, a, d, delta) ==
    /\ Balance(b2, a, d) = Balance(b1, a, d) + delta
    /\ \A k \in (DOMAIN b1) \cup (DOMAIN b2) :
          k # <<a, d>> => Balance(b2, k[1], k[2]) = Balance(b1, k[1], k[2])

\* C5 as claimed: a Coreum issue that returns an error leaves the issued-token
\* records and every bank balance as they were before the call.
C5_FailedIssueChangesNothing ==
    [][(Coreum /\ last'.op = "issue" /\ ~last'.res.ok)
       => (issued' = issued /\ bank' = bank)]_vars

\* C6 as claimed: a Coreum mint that passes the module's checks is carried out
\* and credits the declared recipient, or the sender when the declared recipient
\* is empty: the account named by the recipient attribute of the tf_mint event.
C6_MintCreditsRecipientOrSender ==
    [][(/\ Coreum /\ last'.op = "mint"
        /\ Rightful(last')
        /\ last'.msg.coin.denom \in DOMAIN issued
        /\ AmountOf(last').ok /\ AmountOf(last').val > 0)
       => /\ last'.res.ok
          /\ Balance(bank', mint_recipient(last'.msg), last'.msg.coin.denom)
               = Balance(bank, mint_recipient(last'.msg), last'.msg.coin.denom) + AmountOf(last').val]_vars

\* C7: a Coreum mint or burn by the rightful sender for a denom without an
\* issuance record fails with the "unknown Coreum FT denom" error naming the
\* denom, and changes no balance.
C7_UnknownDenomRejected ==
    [][(/\ Coreum /\ last'.op \in {"mint", "burn"}
        /\ Rightful(last')
        /\ last'.msg.coin.denom \notin DOMAIN issued)
       => /\ last'.res.err = (IF last'.op = "mint" THEN "MsgMint for unknown Coreum FT denom"
                                                  ELSE "MsgBurn for unknown Coreum FT denom")
          /\ last'.res.arg = last'.msg.coin.denom
          /\ bank' = bank]_vars

\* C7 witness: the would-be issuer asked to mint a denom that has no record.
C7_Witness ==
    /\ Coreum /\ last.op = "mint"
    /\ last.sender = ALI /\ last.msg.sender = ALI
    /\ last.msg.coin = SomeCoin(SUB_ALI, <<"1">>)
    /\ SUB_ALI \notin DOMAIN issued
    /\ last.res.err = "MsgMint for unknown Coreum FT denom"
    /\ last.res.arg = SUB_ALI

\* C8: in both variants a burn by the denom's issuer/creator of more than the
\* sender holds fails with the bank's insufficient-funds error ("Cannot Sub")
\* and leaves every balance, hence the supply, unchanged.
C8_BurnBeyondBalanceRejected ==
    [][(/\ last'.op = "burn"
        /\ Rightful(last')
        /\ (Coreum => CoinOf(last').denom \in DOMAIN issued)
        /\ AmountOf(last').ok
        /\ AmountOf(last').val > Balance(bank, last'.sender, CoinOf(last').denom))
       => (last'.res.err = "Cannot Sub" /\ bank' = bank)]_vars

\* C8 witness: the issuer holds 1 of its issued denom and was refused a burn of 2.
C8_Witness ==
    /\ Coreum /\ last.op = "burn"
    /\ last.sender = ALI
    /\ last.msg.coin = SomeCoin(SUB_ALI, <<"2">>)
    /\ Balance(bank, ALI, SUB_ALI) = 1
    /\ last.res.err = "Cannot Sub"

\* C9: in both variants a successful mint of A with a non-empty recipient adds
\* exactly A to that recipient's balance of the denom, a successful burn of A
\* takes exactly A from the sender's balance, and no other balance changes.
C9_MintBurnExactAmount ==
    [][/\ (last'.op = "mint" /\ last'.res.ok /\ RecipientOf(last') # EMPTY)
          => OnlyChanged(bank, bank', RecipientOf(last'), CoinOf(last').denom, AmountOf(last').val)
       /\ (last'.op = "burn" /\ last'.res.ok)
          => OnlyChanged(bank, bank', last'.sender, CoinOf(last').denom, 0 - AmountOf(last').val)]_vars

\* C9 witness: the issuer minted 1 to another account, which now holds it.
C9_Witness ==
    /\ Coreum /\ last.op = "mint" /\ last.res.ok
    /\ last.sender = ALI /\ last.msg.recipient = BOB
    /\ last.msg.coin = SomeCoin(SUB_ALI, <<"1">>)
    /\ Balance(bank, BOB, SUB_ALI) = 1
    /\ Balance(bank, ALI, SUB_ALI) = 0

\* C10: in both variants a mint or burn of amount zero fails and changes no
\* balance; when the request passes the sender and denom checks (the sender is
\* the issuer/creator and, in the Coreum variant, the denom is issued) the
\* error is "Invalid zero amount".
C10_ZeroAmountRejected ==
    [][(/\ last'.op \in {"mint", "burn"}
        /\ CoinOf(last').some
        /\ AmountOf(last').ok /\ AmountOf(last').val = 0)
       => /\ ~last'.res.ok
          /\ bank' = bank
          /\ (Rightful(last') /\ (Coreum => CoinOf(last').denom \in DOMAIN issued))
             => last'.res.err = "Invalid zero amount"]_vars

\* C10 witness: the issuer asked to mint zero of its issued denom.
C10_Witness ==
    /\ Coreum /\ last.op = "mint"
    /\ last.sender = ALI /\ last.msg.sender = ALI
    /\ last.msg.coin = SomeCoin(SUB_ALI, <<"0">>)
    /\ SUB_ALI \in DOMAIN issued
    /\ last.res.err = "Invalid zero amount"

(***************************************************************************)
(* Field validation and the creation fee.                                  *)
(***************************************************************************)
\* the declared creator and the sub-denomination of an issue / create-denom request
CreatorOf(l) == IF l.op = "issue" THEN l.msg.issuer ELSE l.msg.sender
SubdenomOf(l) == IF l.op = "issue" THEN l.msg.subunit ELSE l.msg.subdenom
DenomOf(l) == IF l.op = "issue" THEN issue_to_denom(l.msg) ELSE create_denom_name(l.msg)

\* one of the four field conditions of the claim holds for the request
FieldsRejected(l) ==
    \/ Len(SubdenomOf(l)) > max_subdenom_len
    \/ Len(CreatorOf(l)) > max_creator_len
    \/ Contains(CreatorOf(l), "/")
    \/ CreatorOf(l) # l.sender

\* C11: an issue / create-denom request whose subunit is longer than
\* max_subdenom_len, whose declared issuer is longer than max_creator_len or
\* contains '/', or whose declared issuer is not the transaction sender, fails
\* and writes no record, burns no fee and mints nothing.
C11_InvalidFieldsRejected ==
    [][(last'.op \in {"issue", "create_denom"} /\ FieldsRejected(last'))
       => (~last'.res.ok /\ issued' = issued /\ bank' = bank)]_vars

\* C11 witness: a funded account whose address contains '/' asked to issue for
\* itself and was refused for the '/'; it still holds its funds and the denom
\* has no record.
C11_Witness ==
    /\ Coreum /\ last.op = "issue"
    /\ last.sender = SlashAddr /\ last.msg.issuer = SlashAddr
    /\ last.msg.subunit = SUB
    /\ last.res.err = "Invalid creator address, creator address cannot contains '/'"
    /\ Balance(bank, SlashAddr, DEFAULT_COIN_DENOM) = FeeUnits * FeeAmount
    /\ issue_to_denom(last.msg) \notin DOMAIN issued

\* the request passes the field checks and the denom has no supply yet
ReachesFee(l, b) ==
    /\ (IF l.op = "issue" THEN issue_validate(l.sender, l.msg)
                           ELSE create_denom_validate(l.sender, l.msg)) = ""
    /\ Supply(b, DenomOf(l)) = 0

\* C12: a successful issue / create-denom takes exactly the creation fee from
\* the sender's balance of the fee denom and from nobody else's; a request that
\* reaches the fee burn with a smaller balance fails with the bank's
\* insufficient-funds error ("Cannot Sub") before anything is minted, whatever
\* its initial amount.
C12_FeeBurnedOrInsufficient ==
    [][(last'.op \in {"issue", "create_denom"})
       => /\ last'.res.ok
             => /\ Balance(bank', last'.sender, DEFAULT_COIN_DENOM)
                     = Balance(bank, last'.sender, DEFAULT_COIN_DENOM) - FeeAmount
                /\ \A k \in (DOMAIN bank) \cup (DOMAIN bank') :
                      (k[2] = DEFAULT_COIN_DENOM /\ k[1] # last'.sender)
                         => Balance(bank', k[1], k[2]) = Balance(bank, k[1], k[2])
          /\ (ReachesFee(last', bank) /\ Balance(bank, last'.sender, DEFAULT_COIN_DENOM) < FeeAmount)
             => (last'.res.err = "Cannot Sub" /\ bank' = bank)]_vars

\* C12 witness: an issuer that has spent its funds asked to issue with an
\* unparsable initial amount and was refused for the fee, not for the amount.
C12_Witness ==
    /\ Coreum /\ last.op = "issue"
    /\ last.sender = ALI /\ last.msg.issuer = ALI
    /\ last.msg.initial_amount = NOTNUM
    /\ Balance(bank, ALI, DEFAULT_COIN_DENOM) < FeeAmount
    /\ last.res.err = "Cannot Sub"

(***************************************************************************)
(* NFT classes and tokens.                                                 *)
(***************************************************************************)
\* the key an NFT request addresses
KeyOf(l) == <<l.msg.class_id, l.msg.id>>

\* the request addresses a live token of an existing class
LiveToken(l, cl, n) == l.msg.class_id \in DOMAIN cl /\ KeyOf(l) \in DOMAIN n

\* the token of the key appears in a listing
Listed(listing, k) == \E i \in 1..Len(listing) : listing[i].class_id = k[1] /\ listing[i].id = k[2]

\* every record except the one under k is the same in n2 as in n1
OthersKept(n1, n2, k) ==
    /\ (DOMAIN n1) \ {k} = (DOMAIN n2) \ {k}
    /\ \A j \in (DOMAIN n1) \ {k} : n2[j] = n1[j]

\* C13 as claimed: in a soulbound class a send succeeds only when the
\* transaction sender is the class issuer; a send by anyone else, the token's
\* owner included, fails and leaves the owner unchanged.
C13_SoulboundOnlyIssuerSends ==
    [][(/\ last'.op = "nft_send"
        /\ LiveToken(last', classes, nfts)
        /\ Soulbound \in classes[last'.msg.class_id].features
        /\ last'.sender # classes[last'.msg.class_id].issuer)
       => (~last'.res.ok /\ nfts' = nfts)]_vars

\* C14: a send by a transaction sender who is neither the token's owner nor the
\* issuer of its soulbound class fails and leaves every record unchanged; the
\* error is "Unauthorized send" when the declared sender is the transaction
\* sender.  The issuer of a class that is not soulbound is such a sender.
C14_StrangerCannotSend ==
    [][(/\ last'.op = "nft_send"
        /\ LiveToken(last', classes, nfts)
        /\ nfts[KeyOf(last')].owner # last'.sender
        /\ ~(/\ Soulbound \in classes[last'.msg.class_id].features
             /\ classes[last'.msg.class_id].issuer = last'.sender))
       => /\ ~last'.res.ok
          /\ nfts' = nfts
          /\ (last'.msg.sender = last'.sender)
             => last'.res.err = "Unauthorized send. Only owner can send"]_vars

\* C14 witness: the issuer of a class without the soulbound feature tried to
\* send a token owned by somebody else and was refused.
C14_Witness ==
    /\ last.op = "nft_send"
    /\ last.sender = ALI /\ last.msg.sender = ALI
    /\ LiveToken(last, classes, nfts)
    /\ classes[last.msg.class_id].issuer = ALI
    /\ Soulbound \notin classes[last.msg.class_id].features
    /\ nfts[KeyOf(last)].owner = BOB
    /\ last.res.err = "Unauthorized send. Only owner can send"

\* C15: after a successful send of a token from its owner A to a receiver B
\* other than A, the owner query returns B, the listing filtered by owner A
\* does not contain the token, the listing filtered by owner B contains it,
\* the record differs from the old one in its owner only, and no other record
\* and no class is touched.
C15_SendMovesOwnership ==
    [][(/\ last'.op = "nft_send" /\ last'.res.ok
        /\ nfts[KeyOf(last')].owner # last'.msg.receiver)
       => LET k == KeyOf(last')
              A == nfts[k].owner
              B == last'.msg.receiver
          IN /\ query_owner(nfts', k[1], k[2]).ok
             /\ query_owner(nfts', k[1], k[2]).owner = B
             /\ ~Listed(query_nfts(nfts', NoFilter, Filter(A)), k)
             /\ Listed(query_nfts(nfts', NoFilter, Filter(B)), k)
             /\ nfts'[k] = [nfts[k] EXCEPT !.owner = B]
             /\ OthersKept(nfts, nfts', k)
             /\ classes' = classes]_vars

\* C15 witness: the owner of token 1 sent it to a third account while token 2
\* of the class is live; token 1 now belongs to the receiver.
C15_Witness ==
    /\ last.op = "nft_send" /\ last.res.ok
    /\ last.sender = ALI /\ last.msg.sender = ALI
    /\ classes[NFT_ALI].features = {}
    /\ KeyOf(last) = <<NFT_ALI, ID1>>
    /\ last.msg.receiver = CAR
    /\ nfts[<<NFT_ALI, ID1>>].owner = CAR
    /\ <<NFT_ALI, ID2>> \in DOMAIN nfts

\* the burn request is one the claim allows
BurnAllowed(l, cl, n) ==
    /\ l.msg.sender = l.sender
    /\ LiveToken(l, cl, n)
    /\ \/ n[KeyOf(l)].owner = l.sender
       \/ (Burning \in cl[l.msg.class_id].features /\ cl[l.msg.class_id].issuer = l.sender)

\* C16: a burn succeeds exactly when the declared sender is the transaction
\* sender, the class and the live record exist, and the sender is the owner or
\* the issuer of a class with the burning feature; a successful burn deletes
\* the record and nothing else, so that the owner query and the single-token
\* query fail and the listing no longer contains it; any other burn fails and
\* changes no record.
C16_BurnByOwnerOrBurningIssuer ==
    [][(last'.op = "nft_burn")
       => LET k == KeyOf(last')
          IN /\ last'.res.ok <=> BurnAllowed(last', classes, nfts)
             /\ last'.res.ok
                => /\ k \notin DOMAIN nfts'
                   /\ OthersKept(nfts, nfts', k)
                   /\ ~query_owner(nfts', k[1], k[2]).ok
                   /\ ~query_nft(nfts', k[1], k[2]).ok
                   /\ ~Listed(query_nfts(nfts', NoFilter, NoFilter), k)
             /\ ~last'.res.ok => nfts' = nfts
             /\ classes' = classes]_vars

\* C16 witness: the issuer of a class with the burning feature burned token 1;
\* its record is gone while token 2 is still live.
C16_Witness ==
    /\ last.op = "nft_burn" /\ last.res.ok
    /\ last.sender = ALI
    /\ KeyOf(last) = <<NFT_ALI, ID1>>
    /\ Burning \in classes[NFT_ALI].features
    /\ <<NFT_ALI, ID1>> \notin DOMAIN nfts
    /\ <<NFT_ALI, ID2>> \in DOMAIN nfts
    /\ ~query_owner(nfts, NFT_ALI, ID1).ok

\* C17: an NFT mint succeeds only if the declared sender is the transaction
\* sender, the class exists and the transaction sender is its issuer; the new
\* record's owner is the declared recipient, or the sender when the recipient
\* is empty.  A mint by anyone else, or into a class that does not exist,
\* fails and creates no record.
C17_OnlyIssuerMints ==
    [][(last'.op = "nft_mint")
       => LET k == KeyOf(last')
              m == last'.msg
          IN /\ last'.res.ok
                => /\ m.sender = last'.sender
                   /\ m.class_id \in DOMAIN classes
                   /\ classes[m.class_id].issuer = last'.sender
                   /\ k \in DOMAIN nfts'
                   /\ nfts'[k].owner = (IF m.recipient = EMPTY THEN m.sender ELSE m.recipient)
             /\ (m.class_id \notin DOMAIN classes \/ classes[m.class_id].issuer # last'.sender)
                => (~last'.res.ok /\ nfts' = nfts)]_vars

\* C17 witness: the issuer minted token 1 to another account, which owns it.
C17_Witness ==
    /\ last.op = "nft_mint" /\ last.res.ok
    /\ last.sender = ALI /\ last.msg.recipient = BOB
    /\ KeyOf(last) = <<NFT_ALI, ID1>>
    /\ nfts[<<NFT_ALI, ID1>>].owner = BOB

\* C18: a mint for a pair that has a live record fails and leaves every record
\* as it was; a mint by the class issuer for a pair without a live record
\* succeeds, in particular after that pair's record has been burned.
C18_OneLiveRecordPerPair ==
    [][(last'.op = "nft_mint")
       => /\ KeyOf(last') \in DOMAIN nfts => (~last'.res.ok /\ nfts' = nfts)
          /\ (/\ KeyOf(last') \notin DOMAIN nfts
              /\ last'.msg.sender = last'.sender
              /\ last'.msg.class_id \in DOMAIN classes
              /\ classes[last'.msg.class_id].issuer = last'.sender)
             => (last'.res.ok /\ KeyOf(last') \in DOMAIN nfts')]_vars

\* C18 witness: token 1 was burned by the call before, and the issuer has now
\* minted the same pair again.
C18_Witness ==
    /\ last.op = "nft_mint" /\ last.res.ok
    /\ KeyOf(last) = <<NFT_ALI, ID1>>
    /\ prev.ok /\ prev.denom = NFT_ALI /\ prev.initial = ID1
    /\ <<NFT_ALI, ID1>> \in DOMAIN nfts

\* the class id the claim derives: the symbol in lower case, '-', the issuer
LowerClassId(msg) == to_lowercase(msg.symbol) \o <<"-">> \o msg.issuer

\* C19: issue-class succeeds exactly when the declared issuer is the
\* transaction sender and no class record exists under lowercase(symbol)-issuer
\* (so a symbol differing only in letter case collides); and no call ever
\* changes or removes a class record.
C19_ClassIdUniqueAndImmutable ==
    [][/\ (last'.op = "issue_class")
          => /\ last'.res.ok <=> (/\ last'.msg.issuer = last'.sender
                                  /\ LowerClassId(last'.msg) \notin DOMAIN classes)
             /\ last'.res.ok => (/\ LowerClassId(last'.msg) \in DOMAIN classes'
                                 /\ classes'[LowerClassId(last'.msg)] = last'.msg)
       /\ \A c \in DOMAIN classes : c \in DOMAIN classes' /\ classes'[c] = classes[c]]_vars

\* C19 witness: the class was issued with its symbol in lower case, and the
\* same issuer's request with the symbol in upper case was refused.
C19_Witness ==
    /\ last.op = "issue_class"
    /\ last.sender = ALI /\ last.msg.issuer = ALI
    /\ last.msg.symbol = CLS_SYM
    /\ last.res.err = "NFT class already exists"
    /\ NFT_ALI \in DOMAIN classes
    /\ classes[NFT_ALI].symbol = cls_sym

\* C20: every live NFT record belongs to an existing class and stores the
\* class id and token id of the key it is stored under.
C20_RecordsReferenceClasses ==
    \A k \in DOMAIN nfts :
        /\ k[1] \in DOMAIN classes
        /\ nfts[k].class_id = k[1]
        /\ nfts[k].id = k[2]

\* C20 witness: two live records of one class, after a send.
C20_Witness ==
    /\ last.op = "nft_send" /\ last.res.ok
    /\ <<NFT_ALI, ID1>> \in DOMAIN nfts
    /\ <<NFT_ALI, ID2>> \in DOMAIN nfts
    /\ NFT_ALI \in DOMAIN classes

(***************************************************************************)
(* Issuance records and queries.                                           *)
(***************************************************************************)
\* the attributes of an issuance record
Attributes(rec) ==
    [issuer |-> rec.issuer, symbol |-> rec.symbol, subunit |-> rec.subunit,
     precision |-> rec.precision, description |-> rec.description]

\* C21: once an issuance record exists for a denom, no later issue, mint or
\* burn deletes it or changes its issuer, symbol, subunit, precision or
\* description.
C21_RecordNeverMutated ==
    [][\A d \in DOMAIN issued :
          /\ d \in DOMAIN issued'
          /\ Attributes(issued'[d]) = Attributes(issued[d])]_vars

\* C30: the single-denom FT query answers the native fee denom with the
\* synthetic descriptor (symbol CORE, precision 6, empty issuer) in every
\* reachable state; any other denom with the attributes of its issuance
\* record when one exists, and with a not-found error otherwise.
C30_TokenQuery ==
    \A d \in TkDenoms :
        LET q == query_token(issued, d)
        IN IF d = DEFAULT_COIN_DENOM
           THEN /\ q.ok
                /\ q.val.denom = d
                /\ q.val.symbol = NATIVE_SYMBOL
                /\ q.val.precision = 6
                /\ q.val.issuer = EMPTY
           ELSE IF d \in DOMAIN issued
           THEN /\ q.ok
                /\ q.val.denom = d
                /\ Attributes(q.val) = Attributes(issued[d])
           ELSE /\ ~q.ok
                /\ q.err = "FT not found for denom"
                /\ q.arg = d

\* a record exists for one denom next to the native one, another denom has none
C30_Witness ==
    /\ last.op = "issue" /\ last.res.ok
    /\ SUB_ALI \in DOMAIN issued
    /\ (DEFAULT_COIN_DENOM \o <<"-">> \o ALI) \in DOMAIN issued
    /\ query_token(issued, SUB_ALI).ok
    /\ query_token(issued, SUB_ALI).val.symbol = SYM2
    /\ query_token(issued, DEFAULT_COIN_DENOM).val.symbol = NATIVE_SYMBOL
    /\ ~query_token(issued, SUB_BOB).ok

(***************************************************************************)
(* NFT handlers that fail, and the NFT queries.                            *)
(***************************************************************************)
NftOps == {"issue_class", "nft_mint", "nft_send", "nft_burn"}

\* C22: an issue-class, NFT mint, NFT send or NFT burn call that returns an
\* error leaves the class map and the minted-NFT map as they were; a send
\* rejected for an empty receiver changes no owner.
C22_FailedNftCallChangesNothing ==
    [][(last'.op \in NftOps /\ ~last'.res.ok) => (classes' = classes /\ nfts' = nfts)]_vars

\* the owner's send to the empty receiver was refused and the token is still the owner's
C22_Witness ==
    /\ last.op = "nft_send"
    /\ ~last.res.ok
    /\ last.res.err = "MsgSend.receiver is empty"
    /\ last.msg.receiver = EMPTY
    /\ KeyOf(last) \in DOMAIN nfts
    /\ nfts[KeyOf(last)].owner = last.sender
    /\ query_owner(nfts, last.msg.class_id, last.msg.id).owner = last.sender

\* the class ids the class query is asked about
QueriedClasses == {NFT_ALI, SUB_ALI}

\* C28: the single-NFT query and the owner query succeed exactly when a live
\* record exists for (class id, token id), the single-class query exactly
\* when a class record exists for the id; the owner returned is the record's
\* current owner.
C28_QueriesSucceedIffRecord ==
    /\ \A k \in NftKeys :
          LET key == <<k.class_id, k.id>>
              q == query_nft(nfts, k.class_id, k.id)
              o == query_owner(nfts, k.class_id, k.id)
          IN /\ q.ok <=> key \in DOMAIN nfts
             /\ o.ok <=> key \in DOMAIN nfts
             /\ key \in DOMAIN nfts =>
                   /\ o.owner = nfts[key].owner
                   /\ q.nft.class_id = k.class_id
                   /\ q.nft.id = k.id
             /\ key \notin DOMAIN nfts =>
                   /\ q.err = "NFT not found for"
                   /\ o.err = "NFT not found for"
    /\ \A c \in QueriedClasses :
          LET q == query_class(classes, c)
          IN /\ q.ok <=> c \in DOMAIN classes
             /\ c \in DOMAIN classes => (q.class.id = c /\ q.class.issuer = classes[c].issuer)
             /\ c \notin DOMAIN classes => (q.err = "NFT class not found for id" /\ q.arg = c)

\* a token has just been burned and its queries fail, while the other token
\* of the class is still answered with its owner
C28_Witness ==
    /\ last.op = "nft_burn" /\ last.res.ok
    /\ ~query_nft(nfts, last.msg.class_id, last.msg.id).ok
    /\ ~query_owner(nfts, last.msg.class_id, last.msg.id).ok
    /\ \E k \in NftKeys :
          /\ <<k.class_id, k.id>> # KeyOf(last)
          /\ query_nft(nfts, k.class_id, k.id).ok
          /\ query_owner(nfts, k.class_id, k.id).owner = CAR
    /\ query_class(classes, NFT_ALI).ok
    /\ ~query_class(classes, SUB_ALI).ok

(***************************************************************************)
(* Generic variant: mint without create-denom.                             *)
(***************************************************************************)
\* no create-denom has succeeded yet: the fee denom is only ever burned, and
\* only by a successful create-denom, so its supply is still the initial one
NeverCreated == Supply(bank, DEFAULT_COIN_DENOM) = FeeUnits * FeeAmount

\* C27: in the generic variant a mint of a factory denom for which no
\* create-denom has ever succeeded is rejected, even when the creator part
\* of the denom is the sender and the amount is nonzero.
C27_MintWithoutCreateRejected ==
    (Generic /\ last.op = "mint" /\ NeverCreated /\ last.msg.amount.some
        /\ last.msg.amount.denom = F_ALI_SUB)
    => ~last.res.ok

(***************************************************************************)
(* Dispatch on the type URL.                                               *)
(***************************************************************************)
\* the type URLs the variant in use has an arm for
Handled == IF Coreum THEN CoreumUrls ELSE GenericUrls

\* C23: an execute call whose type URL is not one the variant handles fails
\* with "Unknown message type" naming the URL, whatever the payload, and
\* changes no record and no balance.
C23_UnknownTypeUrlRejected ==
    [][(last'.op = "execute" /\ last'.msg.type_url \notin Handled)
        => /\ ~last'.res.ok
           /\ last'.res.err = "Unknown message type"
           /\ last'.res.arg = last'.msg.type_url
           /\ UNCHANGED <<bank, issued, classes, nfts>>]_vars

\* the Coreum variant, holding records, was sent a well-formed create-denom
\* message of the generic variant
C23_Witness ==
    /\ Coreum
    /\ last.op = "execute"
    /\ last.msg.type_url = URL_TF_CREATE_DENOM
    /\ last.msg.value # Garbage
    /\ ~last.res.ok
    /\ last.res.err = "Unknown message type"
    /\ DOMAIN issued # {}
    /\ DOMAIN nfts # {}

\* C26: every execute call of the generic variant returns a response or an
\* error; no mint or burn request, whatever its denom, panics.
C26_GenericNeverPanics ==
    (Generic /\ last.op = "execute") => last.res.err # "panic"

(***************************************************************************)
(* The NFT listing.                                                        *)
(***************************************************************************)
\* the filters the listing is asked with
ClassFilters == {NoFilter, Filter(NFT_ALI), Filter(ZZ_ALI), Filter(SUB_ALI)}
OwnerFilters == {NoFilter, Filter(ALI), Filter(BOB), Filter(CAR)}

\* the live records a listing with these filters is about
Matching(n, cf, of) ==
    {k \in DOMAIN n : (cf.some => k[1] = cf.val) /\ (of.some => n[k].owner = of.val)}

\* C29: the NFT listing returns exactly the live records whose class id
\* equals the class filter (when given) and whose owner equals the owner
\* filter (when given), each once, in ascending order of their keys; the
\* pagination metadata is next_key = none and total = 0 whatever the number
\* of items.
C29_ListingExactAndOrdered ==
    \A cf \in ClassFilters, of \in OwnerFilters :
        LET r == nfts_response(nfts, cf, of)
            items == r.nfts
            key(i) == <<items[i].class_id, items[i].id>>
        IN /\ {key(i) : i \in 1..Len(items)} = Matching(nfts, cf, of)
           /\ Len(items) = Cardinality(Matching(nfts, cf, of))
           /\ \A i \in 1..Len(items) : items[i] = nft_of(nfts[key(i)])
           /\ \A i, j \in 1..Len(items) : i < j => KeyLess(key(i), key(j))
           /\ ~r.pagination.next_key.some
           /\ r.pagination.total = [some |-> TRUE, val |-> 0]

\* tokens of both classes are live with different owners: the listing starts
\* with the class of the shorter id, and the owner filter keeps only a part
C29_Witness ==
    /\ Cardinality(DOMAIN nfts) >= 3
    /\ nfts_response(nfts, NoFilter, NoFilter).nfts[1].class_id = ZZ_ALI
    /\ Len(nfts_response(nfts, NoFilter, NoFilter).nfts) = Cardinality(DOMAIN nfts)
    /\ Len(nfts_response(nfts, Filter(NFT_ALI), Filter(BOB)).nfts) = 1
    /\ Len(nfts_response(nfts, NoFilter, Filter(BOB)).nfts) = 2
    /\ nfts_response(nfts, NoFilter, NoFilter).pagination.total.val = 0

(***************************************************************************)
(* The query bridge.                                                       *)
(***************************************************************************)
\* the request of the last bridge query
RequestOf(l) == [path |-> l.msg.path, data |-> l.msg.data]

\* C24: on a smart-contract-state query, a contract error returned by the
\* underlying querier is propagated as a query result and not as the hard
\* error a system failure produces; only system failures become hard errors.
C24_ContractErrorIsResult ==
    (last.op = "query" /\ last.msg.path = QUERY_WASM_CONTRACT_SMART_PATH /\ decoded(RequestOf(last)))
    => (~last.res.ok <=> last.msg.raw.kind = "system_err")

\* C25: a bridge query on a path that is not one of the five well-known
\* paths is handed unchanged to the extension when one is configured and
\* otherwise fails with "Unexpected stargate query" naming the path and the
\* payload; a query on a well-known path is answered by the bridge itself,
\* extension or not.
C25_UnknownPathDelegated ==
    last.op = "query" =>
        LET request == RequestOf(last)
        IN IF request.path \notin BridgePaths
           THEN IF variant # "bare"
                THEN last.res = extra_query(variant, request)
                ELSE /\ ~last.res.ok
                     /\ last.res.err = "Unexpected stargate query"
                     /\ last.res.arg = <<request.path, request.data>>
           ELSE /\ last.res = us_query([some |-> FALSE, val |-> ""], bank, request, last.msg.raw)
                /\ last.res # extra_query("coreum", request)
                /\ last.res # extra_query("generic", request)

\* the bridge in front of the Coreum Token Factory was asked on the
\* raw-contract-state path and the extension's refusal came back
C25_Witness ==
    /\ variant = "coreum"
    /\ last.op = "query"
    /\ last.msg.path = QUERY_WASM_CONTRACT_RAW_PATH
    /\ last.msg.data # BadData
    /\ ~last.res.ok
    /\ last.res.err = "Unsupported query type: Stargate queries are disabled"

(***************************************************************************)
(* The denom-string parser.                                                *)
(***************************************************************************)
\* a decimal amount without leading zeros
Canonical(a) == Len(a) >= 1 /\ AllIn(a, Digit) /\ (Len(a) > 1 => a[1] # "0")

\* the four shapes of a denom
PlainShape(d) == Len(d) >= 1 /\ AllIn(d, Lower)
IbcShape(d) ==
    /\ Len(d) = 68
    /\ SubSeq(d, 1, 4) \in {<<"i","b","c","/">>, <<"I","B","C","/">>}
    /\ AllIn(SubSeq(d, 5, 68), HexUpper)
FactoryShape(d) ==
    LET parts == Split(d, "/")
    IN /\ Len(parts) = 3
       /\ parts[1] = module_denom_prefix
       /\ Len(parts[2]) >= 1 /\ AllIn(parts[2], Lower \cup Digit)
       /\ Len(parts[3]) >= 1 /\ AllIn(parts[3], Lower \cup Upper \cup Digit)
CoreumShape(d) ==
    LET parts == Split(d, "-")
    IN /\ Len(parts) = 2
       /\ Len(parts[1]) >= 1 /\ AllIn(parts[1], Lower \cup Digit)
       /\ Len(parts[2]) >= 1 /\ AllIn(parts[2], Lower \cup Upper \cup Digit)

\* the shapes of d that the variant in use accepts
ShapesOf(d) ==
    {sh \in {"plain", "ibc", "factory", "coreum"} :
        \/ sh = "plain" /\ PlainShape(d)
        \/ sh = "ibc" /\ IbcShape(d)
        \/ sh = "factory" /\ FactoryShape(d)
        \/ sh = "coreum" /\ Coreum /\ CoreumShape(d)}

\* the ways to read s as a non-empty run of digits followed by a denom of an
\* accepted shape: the lengths of the run
Readings(s) ==
    {n \in 1..Len(s) : AllIn(SubSeq(s, 1, n), Digit) /\ ShapesOf(Rest(s, n)) # {}}

\* C31 as stated: for every amount N in decimal without leading zeros and
\* every denom d of an accepted shape, the parser applied to N followed by d
\* returns amount N and denom d.
C31_Original ==
    (last.op = "parse" /\ Canonical(last.msg.amount) /\ ShapesOf(last.msg.denom) # {})
    => /\ last.res.ok
       /\ last.res.amount = DecValue(last.msg.amount)
       /\ last.res.denom = last.msg.denom

\* C31: the round trip holds for every amount N in decimal without leading
\* zeros and every denom d of an accepted shape that does not begin with a
\* decimal digit (a Coreum denom may: its subunit part is [a-z0-9]+).
C31_RoundTrip ==
    (last.op = "parse" /\ Canonical(last.msg.amount) /\ ShapesOf(last.msg.denom) # {}
        /\ last.msg.denom[1] \notin Digit)
    => /\ last.res.ok
       /\ last.res.amount = DecValue(last.msg.amount)
       /\ last.res.denom = last.msg.denom

\* amount 10 in front of an upper-case IBC denom came back as it went in
C31_Witness ==
    /\ last.op = "parse"
    /\ last.msg.amount = <<"1","0">>
    /\ last.msg.denom = <<"I","B","C","/">> \o Hex64
    /\ last.res.ok
    /\ last.res.amount = 10
    /\ last.res.denom = last.msg.denom

\* C32: the parser fails with "Invalid sdk string" and returns no coin for
\* every input that is not a decimal amount immediately followed by a denom
\* of an accepted shape, and no input is of more than one shape.
C32_RejectsOtherStrings ==
    last.op = "parse" =>
        LET s == last.msg.sdk_string
        IN /\ Readings(s) = {} =>
                 /\ ~last.res.ok
                 /\ last.res.err = "Invalid sdk string"
                 /\ last.res.denom = EMPTY /\ last.res.amount = 0
           /\ Cardinality(UNION {ShapesOf(Rest(s, n)) : n \in Readings(s)}) <= 1

\* a factory denom with an extra path segment behind an amount was rejected
C32_Witness ==
    /\ last.op = "parse"
    /\ last.msg.amount = <<"1","0">>
    /\ last.msg.denom = F_ALI_SUB \o <<"/">> \o <<"x">>
    /\ ~last.res.ok
    /\ last.res.err = "Invalid sdk string"

\* C39: for every accepted string the returned amount is the value of the
\* leading run of decimal digits and the returned denom is the remainder of
\* the input after that run, also when the run has leading zeros.
C39_DenomIsRemainder ==
    (last.op = "parse" /\ last.res.ok) =>
        LET s == last.msg.sdk_string
        IN /\ last.res.amount = DecValue(SubSeq(s, 1, LeadingDigits(s)))
           /\ last.res.denom = Rest(s, LeadingDigits(s))

(***************************************************************************)
(* Sudo, and execute through the bridge.                                   *)
(***************************************************************************)
\* C33: the sudo entry point of both Token Factory variants and of the
\* Custom Query Module returns an empty success response for every call and
\* leaves all records and balances unchanged.
C33_SudoDoesNothing ==
    [][last'.op \in {"sudo", "cq_sudo"}
        => /\ last'.res = Ok(<<>>)
           /\ UNCHANGED <<bank, issued, classes, nfts>>]_vars

\* sudo was called on the Coreum Token Factory while it held records and a
\* minted supply
C33_Witness ==
    /\ Coreum
    /\ last.op = "sudo"
    /\ last.res.ok
    /\ SUB_ALI \in DOMAIN issued
    /\ DOMAIN nfts # {}
    /\ Supply(bank, SUB_ALI) > 0

\* C40: a bridge with extension E behaves like E on execute and sudo: the
\* call is forwarded unchanged and E's result and state changes are returned
\* as they are; without extension every execute fails with "No stargate
\* exec handler" naming the type URL and changes no state, and sudo returns
\* an empty success response.
C40_BridgeForwards ==
    [][/\ last'.op = "execute" =>
            IF variant = "bare"
            THEN /\ ~last'.res.ok
                 /\ last'.res.err = "No stargate exec handler for"
                 /\ last'.res.arg = last'.msg.type_url
                 /\ UNCHANGED <<bank, issued, classes, nfts>>
            ELSE LET o == extra_execute(variant, bank, issued, classes, nfts,
                                        last'.sender, last'.msg.type_url, last'.msg.value)
                 IN /\ last'.res = o.res
                    /\ bank' = o.bank /\ issued' = o.issued
                    /\ classes' = o.classes /\ nfts' = o.nfts
       /\ last'.op = "us_sudo" =>
            /\ last'.res = Ok(<<>>)
            /\ UNCHANGED <<bank, issued, classes, nfts>>]_vars

\* the bridge in front of the Coreum Token Factory handed on an issue whose
\* events and record came back
C40_Witness ==
    /\ Coreum
    /\ last.op = "execute"
    /\ last.msg.type_url = URL_ISSUE
    /\ last.res.ok
    /\ Len(last.res.events) = 1
    /\ SUB_ALI \in DOMAIN issued
    /\ Supply(bank, SUB_ALI) > 0


\* C35: the life cycle of a Coreum denom.  An issue of a denom with nonzero
\* supply fails; an issue of a denom with zero supply whose fields pass
\* validation, whose initial amount parses, whose sender holds the creation
\* fee and whose issuer is an address the bank can credit the initial amount
\* to succeeds, in particular after the whole supply of an earlier issue of
\* the same denom was burned.
C35_LifeCycle ==
    [][(Coreum /\ last'.op = "issue")
       => LET denom == issue_to_denom(last'.msg)
          IN /\ (Supply(bank, denom) # 0 => ~last'.res.ok)
             /\ (/\ Supply(bank, denom) = 0
                 /\ issue_validate(last'.sender, last'.msg) = ""
                 /\ Balance(bank, last'.sender, DEFAULT_COIN_DENOM) >= FeeAmount
                 /\ ParseU128(last'.msg.initial_amount).ok
                 /\ (InitialOf(last'.msg) > 0 => AddrValidate(last'.msg.issuer))
                 => (last'.res.ok /\ Supply(bank', denom) = InitialOf(last'.msg)))]_vars

\* C35 witness: sub-ali was issued a second time.  Every issue mints a positive
\* initial amount and the denom s-b-ali was never issued, so two creation fees
\* were spent on sub-ali and its whole supply was burned in between.
C35_Witness ==
    /\ Coreum
    /\ last.op = "issue" /\ last.res.ok
    /\ issue_to_denom(last.msg) = SUB_ALI
    /\ Supply(bank, SUB_ALI) = 2
    /\ S_B_ALI \notin DOMAIN issued
    /\ Balance(bank, ALI, DEFAULT_COIN_DENOM) = (FeeUnits - 2) * FeeAmount

\* C36 as claimed: a mint or burn by the issuer of a denom in circulation that
\* an issue produced succeeds: the mint of a positive amount to a recipient
\* the bank accepts, the burn of no more than the issuer holds.
C36_IssuedDenomUsable ==
    [][(/\ Coreum
        /\ last'.op \in {"mint", "burn"}
        /\ last'.msg.coin.some
        /\ last'.msg.coin.denom \in DOMAIN issued
        /\ Supply(bank, last'.msg.coin.denom) # 0
        /\ issued[last'.msg.coin.denom].issuer = last'.sender
        /\ last'.msg.sender = last'.sender
        /\ ParseU128(last'.msg.coin.amount).ok
        /\ ParseU128(last'.msg.coin.amount).val > 0
        /\ (last'.op = "mint" => AddrValidate(last'.msg.recipient))
        /\ (last'.op = "burn" =>
              ParseU128(last'.msg.coin.amount).val <= Balance(bank, last'.sender, last'.msg.coin.denom)))
       => last'.res.ok]_vars

\* the denom has exactly three '/'-separated parts, the first being the prefix
WellFormedFactoryDenom(denom) ==
    LET parts == Split(denom, "/")
    IN Len(parts) = 3 /\ parts[1] = module_denom_prefix

\* C34 as claimed: in the generic variant every mint or burn whose denom is not
\* <prefix>/<creator>/<subdenom> (a missing or extra segment, or a foreign
\* prefix) fails with "Invalid denom".
C34_MalformedDenomRejected ==
    (/\ Generic
     /\ last.op \in {"mint", "burn"}
     /\ last.msg.amount.some
     /\ ~WellFormedFactoryDenom(last.msg.amount.denom))
    => (~last.res.ok /\ last.res.err = "Invalid denom")

\* the value of the named attribute of the first event of a response
AttrOf(res, key) ==
    LET attrs == res.events[1].attrs
    IN attrs[CHOOSE i \in 1..Len(attrs) : attrs[i][1] = key][2]

\* C37 as claimed: on every successful NFT mint, send or burn the sender declared
\* in the message is the transaction sender, and the `sender` attribute of
\* EventSent names the account that submitted the send.
C37_DeclaredSenderIsTxSender ==
    (last.op \in {"nft_mint", "nft_send", "nft_burn"} /\ last.res.ok)
    => /\ last.msg.sender = last.sender
       /\ (last.op = "nft_send" => AttrOf(last.res, "sender") = last.sender)

\* C38 as claimed: the `owner` attribute of EventBurned is the owner the token
\* had immediately before the burn, also when the class issuer burns a token
\* of a burnable class that another account owns.
C38_BurnedEventNamesOwner ==
    [][(last'.op = "nft_burn" /\ last'.res.ok)
       => AttrOf(last'.res, "owner") = nfts[KeyOf(last')].owner]_vars
====
